---- MODULE Spec2Model ----
(***************************************************************************)
(* bridge-serial: the lifecycle orchestrator (BridgeManager), the          *)
(* websocket hub (socket.Server), its sessions (socket.Client) and the     *)
(* serial device reader (serial.SerialBridge), as one state machine.       *)
(*                                                                         *)
(* Goroutines are processes; every step below is one atomic piece of a     *)
(* goroutine between two points where another goroutine can observe it.    *)
(* time.Sleep and time.After are not synchronisation: a sleeping or        *)
(* waiting goroutine may resume at any moment, whatever the others did.    *)
(* A goroutine blocked in a select with no case ready is completed by the  *)
(* first operation that makes a case ready (a send is handed over, a       *)
(* cancel commits it to the Done case); a goroutine that reaches a select  *)
(* with several cases ready takes any of them.                             *)
(* Channels, contexts and listeners are identified by the number of the    *)
(* Start (or resetServer) that created them.                               *)
(***************************************************************************)
EXTENDS Naturals, Integers, Sequences, FiniteSets, TLC

\* ---- bounds ------------------------------------------------------------
NumClients == 2      \* sessions that may connect while the bridge runs (HubSpec)
LifeClients == 1     \* sessions that may connect across start/stop cycles (Spec)
MaxStarts == 2       \* Start calls that pass the isRunning guard
MaxBcast == 3        \* BroadcastMessage calls of a running bridge (HubSpec)
LifeBcast == 1       \* BroadcastMessage calls across start/stop cycles (Spec)
QueueCap == 1        \* capacity of a session's send channel (256 in the code)
Quantum == 18        \* the clock advances in steps of this many seconds
MaxTime == 72        \* the clock stops here
OrderBcast == 2      \* BroadcastMessage calls while two hub loops run (OrderSpec)
OrderCap == 2        \* capacity of a session's send channel in OrderSpec

\* ---- keepalive constants (socket.go:236, 267) ---------------------------
PongWait == 60       \* read deadline: time.Now().Add(60 * time.Second)
PingPeriod == 54     \* time.NewTicker(54 * time.Second)

Clients == 1..NumClients
Runs == 1..MaxStarts
Gens == 0..MaxStarts
LifeSessions == 1..LifeClients
NoChan == 0          \* a nil channel / nil handle

VARIABLES
  \* BridgeManager (part_004:262-271)
  isRunning,     \* bm.isRunning
  stopChan,      \* bm.stopChan: NoChan, or the id of the channel
  stopClosed,    \* the stop channels that have been closed
  httpServer,    \* bm.httpServer: NoChan, or the id of the http.Server
  http,          \* per http.Server: state of its ListenAndServe goroutine
  wg,            \* bm.wg counter
  ctl,           \* position of the caller that holds bm.mu ("idle": mu free)
  nStart,        \* number of Start calls that passed the guard
  lastRes,       \* result of the latest returned Start/Stop call
  \* SerialBridge (part_003)
  port,          \* s.port /= nil (s.reader is set and cleared with it)
  portName,      \* s.portName
  \* polling loops, one per successful Start (part_004:419-464)
  runPc, runCh,
  \* socket.Server (socket.go:32-41)
  gen,           \* id of the current s.ctx / s.register / s.unregister / s.broadcast
  ctxCancelled,  \* the contexts that have been cancelled
  clients,       \* s.clients
  hubPc, hubGen, hubArg,   \* handleConnections goroutines, one per Server.Start
  \* socket.Client, one per accepted connection (socket.go:22-29)
  sst,           \* ServeWS handler: "none", "registering", "open"
  sgen,          \* the s.register the ServeWS handler sends on
  ugen,          \* the s.unregister the deferred send of readPump sends on
  rp, wp,        \* readPump and writePump positions
  q,             \* contents of c.send
  sendClosed,    \* c.send has been closed
  connClosed,    \* c.conn has been closed
  \* history
  nBcast,        \* BroadcastMessage calls so far
  dropAt,        \* per session: the broadcast whose fan-out dropped it, or 0
  lastFrame,     \* the latest inbound frame a readPump has read, and its session
  line,          \* the line the device delivers to ReadData
  parsed,        \* what processScaleData returned for the latest line read
  status,        \* what the latest GetStatus call returned
  served,        \* per hub loop: the members its fan-out in progress has
                 \* visited (empty outside a fan-out)
  \* time
  now,           \* the clock, in seconds since the first Start
  id,            \* per session: c.id
  readDeadline,  \* per session: the read deadline set on c.conn
  lastRead,      \* per session: when readPump started or last read a frame
  steady,        \* per session: every frame so far came less than PongWait
                 \* after the one before (or after readPump started)
  nextPing,      \* per session: when the ticker of writePump fires next
  lastWrite,     \* per session: when writePump started or last wrote a message
  panic          \* "none", or the runtime panic that ended the process

bmVars == <<isRunning, stopChan, stopClosed, httpServer, http, wg, ctl, nStart,
            lastRes>>
serialVars == <<port, portName>>
runVars == <<runPc, runCh>>
hubVars == <<gen, ctxCancelled, clients, hubPc, hubGen, hubArg>>
sessVars == <<sst, sgen, ugen, rp, wp, q, sendClosed, connClosed>>
logVars == <<nBcast, dropAt, lastFrame, line, parsed, status, served>>
timeVars == <<now, id, readDeadline, lastRead, steady, nextPing, lastWrite>>
histVars == <<logVars, timeVars>>
vars == <<bmVars, serialVars, runVars, hubVars, sessVars, histVars, panic>>

Message(t, p) == [type |-> t, payload |-> p]

\* No frame has been read, no line delivered, no status asked for.
NoFrame == [client |-> 0, ok |-> FALSE, type |-> "", payload |-> ""]
NoReading == [err |-> "no line read"]
NoStatus == [running |-> FALSE, serial_connected |-> FALSE,
             websocket_server |-> FALSE, connected_clients |-> 0]
NoId == <<>>
NoInput ==
  /\ lastFrame = NoFrame
  /\ line = <<>>
  /\ parsed = NoReading
  /\ status = NoStatus
  /\ served = [l \in Runs |-> {}]
  /\ now = 0
  /\ steady = [c \in Clients |-> TRUE]

\* No session has been created: no id, no deadline, no ticker.
NoSessionClock ==
  /\ id = [c \in Clients |-> NoId]
  /\ readDeadline = [c \in Clients |-> 0]
  /\ lastRead = [c \in Clients |-> 0]
  /\ nextPing = [c \in Clients |-> 0]
  /\ lastWrite = [c \in Clients |-> 0]

\* NewBridgeManager -> NewSerialBridge, NewServer: nothing is running yet.
Init ==
  /\ isRunning = FALSE
  /\ stopChan = 1
  /\ stopClosed = {}
  /\ httpServer = NoChan
  /\ http = [k \in Runs |-> "none"]
  /\ wg = 0
  /\ ctl = "idle"
  /\ nStart = 0
  /\ lastRes = "none"
  /\ port = FALSE
  /\ portName = ""
  /\ runPc = [r \in Runs |-> "none"]
  /\ runCh = [r \in Runs |-> NoChan]
  /\ gen = 0
  /\ ctxCancelled = {}
  /\ clients = {}
  /\ hubPc = [l \in Runs |-> "none"]
  /\ hubGen = [l \in Runs |-> 0]
  /\ hubArg = [l \in Runs |-> 0]
  /\ sst = [c \in Clients |-> "none"]
  /\ sgen = [c \in Clients |-> 0]
  /\ ugen = [c \in Clients |-> 0]
  /\ rp = [c \in Clients |-> "none"]
  /\ wp = [c \in Clients |-> "none"]
  /\ q = [c \in Clients |-> <<>>]
  /\ sendClosed = [c \in Clients |-> FALSE]
  /\ connClosed = [c \in Clients |-> FALSE]
  /\ nBcast = 0
  /\ dropAt = [c \in Clients |-> 0]
  /\ NoInput
  /\ NoSessionClock
  /\ panic = "none"

\* ---- socket.Server -----------------------------------------------------

\* GetConnectedClientsCount: len(s.clients) under the read lock.
GetConnectedClientsCount == Cardinality(clients)

\* Senders blocked on the register / unregister channel of generation g.
RegPending(g) == {c \in Clients : sst[c] = "registering" /\ sgen[c] = g}
UnregPending(g) == {c \in Clients : rp[c] = "unreg" /\ ugen[c] = g}

\* Loop l of handleConnections is blocked in its select with no case ready.
\* The first channel operation that makes a case ready completes the select
\* at once: a send is handed to the loop, a cancel commits it to return.
HubParked(l) ==
  /\ hubPc[l] = "select"
  /\ hubGen[l] \notin ctxCancelled
  /\ RegPending(hubGen[l]) = {}
  /\ UnregPending(hubGen[l]) = {}

ParkedOn(g) == {l \in Runs : HubParked(l) /\ hubGen[l] = g}

\* s.cancel(): every loop blocked in the select on that context takes
\* case <-s.ctx.Done() and returns.
CancelWakes(g) == [l \in Runs |-> IF l \in ParkedOn(g) THEN "done" ELSE hubPc[l]]

\* close(ch) on every send channel of S; closing a closed channel panics.
CloseSends(S) ==
  /\ sendClosed' = [c \in Clients |-> sendClosed[c] \/ c \in S]
  /\ panic' = IF \E c \in S : sendClosed[c] THEN "close of closed channel" ELSE panic

\* resetServer: cancel the old context, close and forget every client that
\* is still in the map (one queued message is drained first), fresh context
\* and channels.  Runs under s.mu.Lock().
resetServer ==
  /\ ctxCancelled' = ctxCancelled \cup {gen}
  /\ gen' = gen + 1
  /\ connClosed' = [c \in Clients |-> connClosed[c] \/ c \in clients]
  /\ q' = [c \in Clients |->
             IF c \in clients /\ q[c] /= <<>> THEN Tail(q[c]) ELSE q[c]]
  /\ CloseSends(clients)
  /\ clients' = {}

\* Server.Start: resetServer, then go s.handleConnections().  l is the new
\* goroutine; it evaluates the select on the fresh context and channels.
ServerStart(l) ==
  /\ resetServer
  /\ hubPc' = [CancelWakes(gen) EXCEPT ![l] = "select"]
  /\ hubGen' = [hubGen EXCEPT ![l] = gen + 1]
  /\ UNCHANGED hubArg

\* Server.Stop, first half: s.cancel(), then time.Sleep(100ms).
ServerStopCancel ==
  /\ ctxCancelled' = ctxCancelled \cup {gen}
  /\ hubPc' = CancelWakes(gen)

\* Server.Stop, second half: under s.mu.Lock() close every client's
\* connection and send channel and delete it from the map.
ServerStopClear ==
  /\ connClosed' = [c \in Clients |-> connClosed[c] \/ c \in clients]
  /\ CloseSends(clients)
  /\ clients' = {}

\* ---- BridgeManager.Start ----------------------------------------------

Returned(res) == lastRes' = res

\* Start with the guard placed after the creation of the stop channel.
StartRejectedAfterMake ==
  /\ panic = "none"
  /\ ctl = "idle" /\ isRunning
  /\ stopChan' = MaxStarts + 2
  /\ Returned("already running")
  /\ UNCHANGED <<isRunning, stopClosed, httpServer, http, wg, ctl, nStart>>
  /\ UNCHANGED <<serialVars, runVars, hubVars, sessVars, histVars, panic>>

\* Start while running: the guard returns the error before anything else.
StartRejected ==
  /\ panic = "none"
  /\ ctl = "idle" /\ isRunning
  /\ Returned("already running")
  /\ UNCHANGED <<isRunning, stopChan, stopClosed, httpServer, http, wg, ctl,
                 nStart>>
  /\ UNCHANGED <<serialVars, runVars, hubVars, sessVars, histVars, panic>>

\* Start, up to the device connect: fresh stop channel, fresh http.Server,
\* wsServer.Start(), wg.Add(1) and the ListenAndServe goroutine.
StartBegin ==
  /\ panic = "none"
  /\ ctl = "idle" /\ ~isRunning
  /\ nStart < MaxStarts
  /\ nStart' = nStart + 1
  /\ stopChan' = nStart + 2
  /\ httpServer' = nStart + 1
  /\ ServerStart(nStart + 1)
  /\ wg' = wg + 1
  /\ http' = [http EXCEPT ![nStart + 1] = "serving"]
  /\ ctl' = "start_connect"
  /\ UNCHANGED <<isRunning, stopClosed, lastRes>>
  /\ UNCHANGED <<serialVars, runVars, sst, sgen, ugen, rp, wp, histVars>>

\* SerialBridge.getPortDevice: s.portName is overwritten only when a device
\* with the vendor/product id is enumerated; the function returns nil
\* either way.
getPortDevice(found) == IF found THEN "dev" ELSE portName

\* SerialBridge.Connect succeeds iff serial.Open(s.portName) (and
\* SetReadTimeout) succeed; an empty name cannot be opened.
ConnectSucceeds(found, opens) == opens /\ getPortDevice(found) /= ""

\* Start, device connected: isRunning, wg.Add(1), go bm.run().  found: the
\* enumeration lists a device with the vendor/product id; opens:
\* serial.Open and SetReadTimeout succeed on a non-empty name.
StartConnectOKWith(found, opens) ==
  /\ panic = "none"
  /\ ctl = "start_connect"
  /\ ConnectSucceeds(found, opens)
  /\ portName' = getPortDevice(found)
  /\ port' = TRUE
  /\ isRunning' = TRUE
  /\ wg' = wg + 1
  /\ runPc' = [runPc EXCEPT ![nStart] = "select"]
  /\ runCh' = [runCh EXCEPT ![nStart] = stopChan]
  /\ ctl' = "idle"
  /\ Returned("started")
  /\ UNCHANGED <<stopChan, stopClosed, httpServer, http, nStart>>
  /\ UNCHANGED <<hubVars, sessVars, histVars, panic>>

StartConnectOK ==
  /\ panic = "none"
  /\ \E found \in BOOLEAN, opens \in BOOLEAN : StartConnectOKWith(found, opens)

\* Start, device connect failed: the unwinding begins with wsServer.Stop().
StartConnectFail ==
  /\ panic = "none"
  /\ ctl = "start_connect"
  /\ \E found \in BOOLEAN, opens \in BOOLEAN :
       /\ ~ConnectSucceeds(found, opens)
       /\ portName' = getPortDevice(found)
  /\ ServerStopCancel
  /\ ctl' = "fail_sleep"
  /\ UNCHANGED <<isRunning, stopChan, stopClosed, httpServer, http, wg, nStart, lastRes>>
  /\ UNCHANGED <<port, runVars, gen, clients, hubGen, hubArg, sessVars,
                 histVars, panic>>

\* http.Server.Shutdown: the listener closes and ListenAndServe returns.
Shutdown(k) ==
  [http EXCEPT ![k] = IF @ = "serving" THEN "closing" ELSE @]

\* Start, unwinding: the second half of wsServer.Stop().
StartFailClear ==
  /\ panic = "none"
  /\ ctl = "fail_sleep"
  /\ ServerStopClear
  /\ ctl' = "fail_http"
  /\ UNCHANGED <<isRunning, stopChan, stopClosed, httpServer, http, wg, nStart, lastRes>>
  /\ UNCHANGED <<serialVars, runVars, gen, ctxCancelled, hubPc, hubGen, hubArg,
                 sst, sgen, ugen, rp, wp, q, histVars>>

\* The unwinding without the shutdown of the listener.
StartFailReturnKeepsListener ==
  /\ panic = "none"
  /\ ctl = "fail_http"
  /\ ctl' = "idle"
  /\ Returned("connect failed")
  /\ UNCHANGED <<isRunning, stopChan, stopClosed, httpServer, http, wg, nStart>>
  /\ UNCHANGED <<serialVars, runVars, hubVars, sessVars, histVars, panic>>

\* Start, unwinding: httpServer.Shutdown, bm.httpServer = nil, return err.
StartFailReturn ==
  /\ panic = "none"
  /\ ctl = "fail_http"
  /\ http' = IF httpServer /= NoChan THEN Shutdown(httpServer) ELSE http
  /\ httpServer' = NoChan
  /\ ctl' = "idle"
  /\ Returned("connect failed")
  /\ UNCHANGED <<isRunning, stopChan, stopClosed, wg, nStart>>
  /\ UNCHANGED <<serialVars, runVars, hubVars, sessVars, histVars, panic>>

\* ---- BridgeManager.Stop -----------------------------------------------

\* Stop with the guard placed after the reset of the stop channel handle.
StopRejectedAfterTeardown ==
  /\ panic = "none"
  /\ ctl = "idle" /\ ~isRunning
  /\ stopChan' = NoChan
  /\ Returned("not running")
  /\ UNCHANGED <<isRunning, stopClosed, httpServer, http, wg, ctl, nStart>>
  /\ UNCHANGED <<serialVars, runVars, hubVars, sessVars, histVars, panic>>

\* Stop while not running: the guard returns the error before anything else.
StopRejected ==
  /\ panic = "none"
  /\ ctl = "idle" /\ ~isRunning
  /\ Returned("not running")
  /\ UNCHANGED <<isRunning, stopChan, stopClosed, httpServer, http, wg, ctl,
                 nStart>>
  /\ UNCHANGED <<serialVars, runVars, hubVars, sessVars, histVars, panic>>

\* Stop closing the stop channel and keeping it in bm.stopChan.
StopBeginKeepsChan ==
  /\ panic = "none"
  /\ ctl = "idle" /\ isRunning
  /\ isRunning' = FALSE
  /\ stopClosed' = IF stopChan /= NoChan THEN stopClosed \cup {stopChan}
                   ELSE stopClosed
  /\ panic' = IF stopChan /= NoChan /\ stopChan \in stopClosed
              THEN "close of closed channel" ELSE panic
  /\ ctl' = "stop_wait"
  /\ UNCHANGED <<stopChan, httpServer, http, wg, nStart, lastRes>>
  /\ UNCHANGED <<serialVars, runVars, hubVars, sessVars, histVars>>

\* Stop: isRunning = false, close(bm.stopChan), bm.stopChan = nil, and the
\* goroutine that waits for bm.wg is launched.
StopBegin ==
  /\ panic = "none"
  /\ ctl = "idle" /\ isRunning
  /\ isRunning' = FALSE
  /\ stopClosed' = IF stopChan /= NoChan THEN stopClosed \cup {stopChan}
                   ELSE stopClosed
  /\ panic' = IF stopChan /= NoChan /\ stopChan \in stopClosed
              THEN "close of closed channel" ELSE panic
  /\ stopChan' = NoChan
  /\ ctl' = "stop_wait"
  /\ UNCHANGED <<httpServer, http, wg, nStart, lastRes>>
  /\ UNCHANGED <<serialVars, runVars, hubVars, sessVars, histVars>>

\* Stop, select: <-done (bm.wg reached zero), then wsServer.Stop() begins.
StopWaitDone ==
  /\ panic = "none"
  /\ ctl = "stop_wait"
  /\ wg = 0
  /\ ServerStopCancel
  /\ ctl' = "stop_sleep"
  /\ UNCHANGED <<isRunning, stopChan, stopClosed, httpServer, http, wg, nStart, lastRes>>
  /\ UNCHANGED <<serialVars, runVars, gen, clients, hubGen, hubArg,
                 sessVars, histVars, panic>>

\* The bounded wait of Stop without its time.After branch.
StopWaitNoTimeout ==
  /\ ctl = "stop_wait"
  /\ wg = 0
  /\ StopWaitDone

\* Stop, select: <-time.After(3s), then wsServer.Stop() begins.
StopWaitTimeout ==
  /\ panic = "none"
  /\ ctl = "stop_wait"
  /\ ServerStopCancel
  /\ ctl' = "stop_sleep"
  /\ UNCHANGED <<isRunning, stopChan, stopClosed, httpServer, http, wg, nStart, lastRes>>
  /\ UNCHANGED <<serialVars, runVars, gen, clients, hubGen, hubArg,
                 sessVars, histVars, panic>>

\* Stop: the second half of wsServer.Stop().
StopServerClear ==
  /\ panic = "none"
  /\ ctl = "stop_sleep"
  /\ ServerStopClear
  /\ ctl' = "stop_http"
  /\ UNCHANGED <<isRunning, stopChan, stopClosed, httpServer, http, wg, nStart, lastRes>>
  /\ UNCHANGED <<serialVars, runVars, gen, ctxCancelled, hubPc, hubGen, hubArg,
                 sst, sgen, ugen, rp, wp, q, histVars>>

\* Stop shutting the listener down and disconnecting the device in one step
StopHTTPDisconnects ==
  /\ panic = "none"
  /\ ctl = "stop_http"
  /\ http' = IF httpServer /= NoChan THEN Shutdown(httpServer) ELSE http
  /\ httpServer' = NoChan
  /\ port' = FALSE
  /\ ctl' = "stop_serial"
  /\ UNCHANGED <<isRunning, stopChan, stopClosed, wg, nStart, lastRes>>
  /\ UNCHANGED <<portName, runVars, hubVars, sessVars, histVars, panic>>

\* Stop: httpServer.Shutdown with its 5s context, bm.httpServer = nil.
StopHTTP ==
  /\ panic = "none"
  /\ ctl = "stop_http"
  /\ http' = IF httpServer /= NoChan THEN Shutdown(httpServer) ELSE http
  /\ httpServer' = NoChan
  /\ ctl' = "stop_serial"
  /\ UNCHANGED <<isRunning, stopChan, stopClosed, wg, nStart, lastRes>>
  /\ UNCHANGED <<serialVars, runVars, hubVars, sessVars, histVars, panic>>

\* SerialBridge.Disconnect: close the port if there is one; s.port = nil.
CloseResults == {"nil", "close failed"}

\* Disconnect that refuses a device that is not connected
DisconnectRefusesClosed(p, closes) ==
  IF p
    THEN [port |-> FALSE, err |-> closes]
    ELSE [port |-> FALSE, err |-> "serial port not connected"]

\* SerialBridge.Disconnect on a device whose handle is open (p) or nil:
\* the handle it leaves and the error it returns.  closes is the result of
\* s.port.Close().
DisconnectResult(p, closes) ==
  IF p
    THEN [port |-> FALSE, err |-> closes]
    ELSE [port |-> FALSE, err |-> "nil"]

Disconnect ==
  \E closes \in CloseResults : port' = DisconnectResult(port, closes).port

\* Stop: bm.serial.Disconnect(), return nil.
StopDisconnect ==
  /\ panic = "none"
  /\ ctl = "stop_serial"
  /\ Disconnect
  /\ ctl' = "idle"
  /\ Returned("stopped")
  /\ UNCHANGED <<isRunning, stopChan, stopClosed, httpServer, http, wg, nStart>>
  /\ UNCHANGED <<portName, runVars, hubVars, sessVars, histVars, panic>>

\* ---- GetStatus ---------------------------------------------------------

\* GetStatus with the member count taken from the sessions created
GetStatusCountsSessions ==
  [running |-> isRunning,
   serial_connected |-> port,
   websocket_server |-> TRUE,
   connected_clients |-> Cardinality({c \in Clients : sst[c] /= "none"})]

\* BridgeManager.GetStatus: the map it returns.  b.wsServer is assigned in
\* NewBridgeManager and never cleared.
GetStatus ==
  [running |-> isRunning,
   serial_connected |-> port,
   websocket_server |-> TRUE,
   connected_clients |-> GetConnectedClientsCount]

\* A call of GetStatus: it takes b.mu, which Start and Stop hold from entry
\* to return, so it runs between their calls.
GetStatusCall ==
  /\ panic = "none"
  /\ ctl = "idle"
  /\ status' = GetStatus
  /\ UNCHANGED <<bmVars, serialVars, runVars, hubVars, sessVars>>
  /\ UNCHANGED <<nBcast, dropAt, lastFrame, line, parsed, served, timeVars, panic>>

\* ---- the ListenAndServe goroutine of Start ----------------------------

\* ListenAndServe returns (a listen or accept error, or ErrServerClosed
\* after Shutdown); the deferred bm.wg.Done() runs.
HTTPExit(k) ==
  /\ panic = "none"
  /\ http[k] \in {"serving", "closing"}
  /\ http' = [http EXCEPT ![k] = "exited"]
  /\ wg' = wg - 1
  /\ UNCHANGED <<isRunning, stopChan, stopClosed, httpServer, ctl, nStart, lastRes>>
  /\ UNCHANGED <<serialVars, runVars, hubVars, sessVars, histVars, panic>>

\* ---- handleConnections (the hub loop) ---------------------------------

\* The loop goes round: the next select reads s.ctx and the three channel
\* fields as they are now.
HubLoop(l) ==
  /\ hubPc' = [hubPc EXCEPT ![l] = "select"]
  /\ hubGen' = [hubGen EXCEPT ![l] = gen]
  /\ hubArg' = [hubArg EXCEPT ![l] = 0]

\* case <-s.ctx.Done(): return
HubCtxDone(l) ==
  /\ panic = "none"
  /\ hubPc[l] = "select"
  /\ hubGen[l] \in ctxCancelled
  /\ hubPc' = [hubPc EXCEPT ![l] = "done"]
  /\ UNCHANGED <<gen, ctxCancelled, clients, hubGen, hubArg>>
  /\ UNCHANGED <<bmVars, serialVars, runVars, sessVars, histVars, panic>>

\* readPump sets the first read deadline (SetReadDeadline(now + 60s)) and
\* writePump creates its ticker (NewTicker(54s)).
StartPumps(c) ==
  /\ readDeadline' = [readDeadline EXCEPT ![c] = now + PongWait]
  /\ lastRead' = [lastRead EXCEPT ![c] = now]
  /\ nextPing' = [nextPing EXCEPT ![c] = now + PingPeriod]
  /\ lastWrite' = [lastWrite EXCEPT ![c] = now]

\* The clock values StartPumps sets.
pumpClocks == <<readDeadline, lastRead, nextPing, lastWrite>>

\* The rendezvous on s.register: loop l receives client c, and ServeWS goes
\* on to start writePump and readPump.
TakeRegister(l, c) ==
  /\ hubPc' = [hubPc EXCEPT ![l] = "reg"]
  /\ hubArg' = [hubArg EXCEPT ![l] = c]
  /\ sst' = [sst EXCEPT ![c] = "open"]
  /\ rp' = [rp EXCEPT ![c] = "run"]
  /\ wp' = [wp EXCEPT ![c] = "run"]
  /\ StartPumps(c)

\* The rendezvous on s.unregister: loop l receives client c, and the
\* deferred function of readPump goes on to c.conn.Close() and ends.
TakeUnregister(l, c) ==
  /\ hubPc' = [hubPc EXCEPT ![l] = "unreg"]
  /\ hubArg' = [hubArg EXCEPT ![l] = c]
  /\ rp' = [rp EXCEPT ![c] = "done"]
  /\ connClosed' = [connClosed EXCEPT ![c] = TRUE]

\* case client := <-s.register, chosen by a loop that reaches its select
\* while a ServeWS is already blocked in the send.
HubRecvRegister(l, c) ==
  /\ panic = "none"
  /\ hubPc[l] = "select"
  /\ c \in RegPending(hubGen[l])
  /\ TakeRegister(l, c)
  /\ UNCHANGED <<gen, ctxCancelled, clients, hubGen>>
  /\ UNCHANGED <<sgen, ugen, q, sendClosed, connClosed>>
  /\ UNCHANGED <<bmVars, serialVars, runVars, logVars, now, id, steady, panic>>

\* s.clients[client] = true under s.mu.Lock()
HubRegister(l) ==
  /\ panic = "none"
  /\ hubPc[l] = "reg"
  /\ clients' = clients \cup {hubArg[l]}
  /\ HubLoop(l)
  /\ UNCHANGED <<gen, ctxCancelled>>
  /\ UNCHANGED <<bmVars, serialVars, runVars, sessVars, histVars, panic>>

\* case client := <-s.unregister, chosen by a loop that reaches its select
\* while a readPump is already blocked in the deferred send.
HubRecvUnregister(l, c) ==
  /\ panic = "none"
  /\ hubPc[l] = "select"
  /\ c \in UnregPending(hubGen[l])
  /\ TakeUnregister(l, c)
  /\ UNCHANGED <<gen, ctxCancelled, clients, hubGen>>
  /\ UNCHANGED <<sst, sgen, ugen, wp, q, sendClosed>>
  /\ UNCHANGED <<bmVars, serialVars, runVars, histVars, panic>>

\* The unregister case closing the send channel but leaving the map entry.
HubUnregisterKeepsEntry(l) ==
  /\ panic = "none"
  /\ hubPc[l] = "unreg"
  /\ IF hubArg[l] \in clients
       THEN CloseSends({hubArg[l]})
       ELSE UNCHANGED <<sendClosed, panic>>
  /\ HubLoop(l)
  /\ UNCHANGED <<gen, ctxCancelled, clients>>
  /\ UNCHANGED <<sst, sgen, ugen, rp, wp, q, connClosed>>
  /\ UNCHANGED <<bmVars, serialVars, runVars, histVars>>

\* if the client is in the map: delete it and close(client.send)
HubUnregister(l) ==
  /\ panic = "none"
  /\ hubPc[l] = "unreg"
  /\ IF hubArg[l] \in clients
       THEN /\ clients' = clients \ {hubArg[l]}
            /\ CloseSends({hubArg[l]})
       ELSE UNCHANGED <<clients, sendClosed, panic>>
  /\ HubLoop(l)
  /\ UNCHANGED <<gen, ctxCancelled>>
  /\ UNCHANGED <<sst, sgen, ugen, rp, wp, q, connClosed>>
  /\ UNCHANGED <<bmVars, serialVars, runVars, histVars>>

\* The members the fan-out of a broadcast enqueues on: those whose send
\* channel has room (select case client.send <- message).
HasRoom(c) == Len(q[c]) < QueueCap
\* The fan-out without its default branch: nobody is dropped.
FanOutKeepsAll == clients
\* The fan-out giving up at the first full queue: nobody else is served.
FanOutStopsAtFull == IF \E c \in clients : ~HasRoom(c) THEN {} ELSE clients
FanOutKept == {c \in clients : HasRoom(c)}

\* The mode in which a hub loop holds s.mu while it runs the body of the
\* case at pc: s.mu.Lock() in the register and unregister cases,
\* s.mu.RLock() in the broadcast case.
MuMode(pc) ==
  CASE pc = "reg" -> "Lock"
    [] pc = "unreg" -> "Lock"
    [] pc = "bcast" -> "RLock"
    [] OTHER -> "none"

\* GetConnectedClientsCount takes s.mu.RLock(): it can read the map while
\* loop l runs its case unless l holds the write lock.
CountCanRead(l) == MuMode(hubPc[l]) /= "Lock"

\* case message := <-s.broadcast, the fan-out under s.mu.RLock(): a
\* non-blocking send to every member; the default branch closes the send
\* channel of a member whose queue is full and deletes it from the map.
\* A send on a closed channel panics.
HubBroadcast(l) ==
  /\ panic = "none"
  /\ hubPc[l] = "bcast"
  /\ q' = [c \in Clients |->
             IF c \in FanOutKept
               THEN Append(q[c], Message("scale_data", hubArg[l]))
               ELSE q[c]]
  /\ IF \E c \in clients : sendClosed[c]
       THEN /\ panic' = "send on closed channel"
            /\ UNCHANGED sendClosed
       ELSE CloseSends(clients \ FanOutKept)
  /\ clients' = FanOutKept
  /\ dropAt' = [c \in Clients |->
                  IF c \in clients \ FanOutKept THEN hubArg[l] ELSE dropAt[c]]
  /\ HubLoop(l)
  /\ UNCHANGED <<gen, ctxCancelled, nBcast, lastFrame, line, parsed, status>>
  /\ UNCHANGED <<served, timeVars>>
  /\ UNCHANGED <<sst, sgen, ugen, rp, wp, connClosed>>
  /\ UNCHANGED <<bmVars, serialVars, runVars>>

\* One iteration of the fan-out (for client := range s.clients) of loop l,
\* for member c: the non-blocking send on a channel of capacity cap, or the
\* default branch.  Another loop may be inside its own fan-out under the
\* same read lock.
HubFanOutStep(l, c, cap) ==
  /\ panic = "none"
  /\ hubPc[l] = "bcast"
  /\ c \in clients \ served[l]
  /\ served' = [served EXCEPT ![l] = @ \cup {c}]
  /\ IF sendClosed[c]
       THEN /\ panic' = "send on closed channel"
            /\ UNCHANGED <<q, sendClosed, clients, dropAt>>
       ELSE IF Len(q[c]) < cap
         THEN /\ q' = [q EXCEPT ![c] = Append(@, Message("scale_data", hubArg[l]))]
              /\ UNCHANGED <<sendClosed, clients, dropAt, panic>>
         ELSE /\ CloseSends({c})
              /\ clients' = clients \ {c}
              /\ dropAt' = [dropAt EXCEPT ![c] = hubArg[l]]
              /\ UNCHANGED q
  /\ UNCHANGED <<gen, ctxCancelled, hubPc, hubGen, hubArg>>
  /\ UNCHANGED <<sst, sgen, ugen, rp, wp, connClosed>>
  /\ UNCHANGED <<nBcast, lastFrame, line, parsed, status, timeVars>>
  /\ UNCHANGED <<bmVars, serialVars, runVars>>

\* The range loop of the fan-out of loop l has visited every member:
\* s.mu.RUnlock(), and the loop goes round.
HubFanOutEnd(l) ==
  /\ panic = "none"
  /\ hubPc[l] = "bcast"
  /\ clients \ served[l] = {}
  /\ served' = [served EXCEPT ![l] = {}]
  /\ HubLoop(l)
  /\ UNCHANGED <<gen, ctxCancelled, clients>>
  /\ UNCHANGED <<nBcast, dropAt, lastFrame, line, parsed, status, timeVars>>
  /\ UNCHANGED <<bmVars, serialVars, runVars, sessVars, panic>>

\* Two loops inside the fan-out at once: s.mu.RLock() admits both.  For a
\* member whose queue is full both take the default branch, or the second
\* one sends after the first one's close: the runtime panics either way.
HubBroadcastOverlap(l, m) ==
  /\ panic = "none"
  /\ l /= m
  /\ hubPc[l] = "bcast" /\ hubPc[m] = "bcast"
  /\ \E c \in clients : ~HasRoom(c)
  /\ panic' \in {"close of closed channel", "send on closed channel"}
  /\ UNCHANGED <<bmVars, serialVars, runVars, hubVars, sessVars, histVars>>

\* ---- BridgeManager.run (the polling loop) -----------------------------

\* The loop goes round: the next select reads bm.stopChan as it is now.
RunLoop(r) ==
  /\ runPc' = [runPc EXCEPT ![r] = "select"]
  /\ runCh' = [runCh EXCEPT ![r] = stopChan]

\* case <-bm.stopChan: return, and the deferred bm.wg.Done().  A nil
\* channel is never ready.
RunStop(r) ==
  /\ panic = "none"
  /\ runPc[r] = "select"
  /\ runCh[r] \in stopClosed
  /\ runPc' = [runPc EXCEPT ![r] = "done"]
  /\ wg' = wg - 1
  /\ UNCHANGED <<isRunning, stopChan, stopClosed, httpServer, http, ctl, nStart, lastRes>>
  /\ UNCHANGED <<serialVars, runCh, hubVars, sessVars, histVars, panic>>

\* case <-ticker.C: bm.serial.IsConnected() decides between skipping the
\* tick and calling ReadData.
RunTick(r) ==
  /\ panic = "none"
  /\ runPc[r] = "select"
  /\ IF port
       THEN /\ runPc' = [runPc EXCEPT ![r] = "read"]
            /\ UNCHANGED runCh
       ELSE RunLoop(r)
  /\ UNCHANGED <<bmVars, serialVars, hubVars, sessVars, histVars, panic>>

\* ReadData returns an error (no reader, closed port, timeout), or a line
\* that processScaleData rejects: continue.
RunReadNothing(r) ==
  /\ panic = "none"
  /\ runPc[r] = "read"
  /\ RunLoop(r)
  /\ UNCHANGED <<bmVars, serialVars, hubVars, sessVars, histVars, panic>>

\* Server.BroadcastMessage: a non-blocking send on s.broadcast; the default
\* branch drops the message.
BroadcastMessage(m) ==
  IF ParkedOn(gen) /= {}
    THEN \E l \in ParkedOn(gen) :
           /\ hubPc' = [hubPc EXCEPT ![l] = "bcast"]
           /\ hubArg' = [hubArg EXCEPT ![l] = m]
    ELSE UNCHANGED <<hubPc, hubArg>>

\* ReadData returns a line, processScaleData accepts it, and
\* sendDataViaSocket broadcasts the reading.
RunReadBroadcast(r, cap) ==
  /\ panic = "none"
  /\ runPc[r] = "read"
  /\ port
  /\ nBcast < cap
  /\ nBcast' = nBcast + 1
  /\ BroadcastMessage(nBcast + 1)
  /\ RunLoop(r)
  /\ UNCHANGED <<gen, ctxCancelled, clients, hubGen, dropAt>>
  /\ UNCHANGED <<lastFrame, line, parsed, status, served, timeVars>>
  /\ UNCHANGED <<bmVars, serialVars, sessVars, panic>>

\* ---- ReadData, processScaleData --------------------------------------

\* A Go string is a sequence of one-character strings here.
Space == {" ", "\t", "\r", "\n"}

Min(S) == CHOOSE x \in S : \A y \in S : x <= y
Max(S) == CHOOSE x \in S : \A y \in S : y <= x

\* strings.TrimSpace
TrimSpace(s) ==
  LET keep == {i \in 1..Len(s) : s[i] \notin Space}
  IN IF keep = {} THEN <<>> ELSE SubSeq(s, Min(keep), Max(keep))

\* SerialBridge.ReadData on a connected port that delivers the line raw:
\* the line without its surrounding white space.
ReadData(raw) == TrimSpace(raw)

\* strings.Fields: the maximal runs of non-space characters, in order.
\* start is the index at which the current field began, 0 outside a field.
RECURSIVE FieldsFrom(_, _, _)
FieldsFrom(s, i, start) ==
  IF i > Len(s)
    THEN IF start = 0 THEN <<>> ELSE <<SubSeq(s, start, Len(s))>>
    ELSE IF s[i] \in Space
      THEN IF start = 0
             THEN FieldsFrom(s, i + 1, 0)
             ELSE <<SubSeq(s, start, i - 1)>> \o FieldsFrom(s, i + 1, 0)
      ELSE FieldsFrom(s, i + 1, IF start = 0 THEN i ELSE start)

Fields(s) == FieldsFrom(s, 1, 0)

\* strconv.ParseFloat(s, 64) on the decimal syntax: an optional sign, then
\* inf, infinity or (unsigned) nan in any case, or digits with at most one
\* point and at least one digit, then optionally e or E, an optional sign
\* and at least one digit; the whole string must be consumed.  A finite
\* value is kept exact as 0.digits * 10^exp with no leading or trailing
\* zero digit; the rounding to 53 bits is left out.  Hexadecimal mantissas
\* and underscores are outside the input alphabet.
Digits == <<"0", "1", "2", "3", "4", "5", "6", "7", "8", "9">>
IsDigit(c) == \E d \in 1..Len(Digits) : Digits[d] = c
DigitVal(c) == (CHOOSE d \in 1..Len(Digits) : Digits[d] = c) - 1

Fold(c) ==
  CASE c = "I" -> "i" [] c = "N" -> "n" [] c = "F" -> "f"
    [] c = "A" -> "a" [] c = "T" -> "t" [] c = "Y" -> "y"
    [] OTHER -> c
Lower(s) == [i \in 1..Len(s) |-> Fold(s[i])]

Negative(s) == s /= <<>> /\ s[1] = "-"
Unsigned(s) == IF s /= <<>> /\ s[1] \in {"+", "-"} THEN Tail(s) ELSE s

Float(class, neg, digits, exp) ==
  [class |-> class, neg |-> neg, digits |-> digits, exp |-> exp]

\* strconv's special(): "none" when s is not one of the named values
special(s) ==
  IF Lower(Unsigned(s)) \in {<<"i", "n", "f">>,
                             <<"i", "n", "f", "i", "n", "i", "t", "y">>}
    THEN "Inf"
    ELSE IF Lower(s) = <<"n", "a", "n">> THEN "NaN" ELSE "none"

\* readFloat's exponent accumulation: e = e*10 + digit while e < 10000
RECURSIVE ExpValue(_, _)
ExpValue(ds, e) ==
  IF ds = <<>> THEN e
  ELSE ExpValue(Tail(ds), IF e < 10000 THEN e * 10 + DigitVal(ds[1]) ELSE e)

\* The value of the digit string ds with the decimal point after its first
\* dp digits.
Decimal(neg, ds, dp) ==
  LET nz == {i \in 1..Len(ds) : ds[i] /= "0"}
  IN IF nz = {} THEN Float("finite", neg, <<>>, 0)
     ELSE Float("finite", neg, SubSeq(ds, Min(nz), Max(nz)), dp - (Min(nz) - 1))

\* float64: the largest numeral of at most 17 digits that still rounds to
\* a finite value is 0.17976931348623158e309; below 1e-324 the result is 0.
MaxFloat64Digits ==
  <<"1", "7", "9", "7", "6", "9", "3", "1", "3", "4", "8", "6", "2", "3", "1", "5", "8">>
MaxExp10 == 309
MinExp10 == -323

DigitAt(ds, i) == IF i <= Len(ds) THEN DigitVal(ds[i]) ELSE 0
DigitsGreater(a, b) ==
  \E i \in 1..Max({Len(a), Len(b)}) :
    /\ DigitAt(a, i) > DigitAt(b, i)
    /\ \A j \in 1..(i - 1) : DigitAt(a, j) = DigitAt(b, j)

Overflows(v) ==
  /\ v.digits /= <<>>
  /\ \/ v.exp > MaxExp10
     \/ v.exp = MaxExp10 /\ DigitsGreater(v.digits, MaxFloat64Digits)
Underflows(v) == v.digits /= <<>> /\ v.exp < MinExp10

ParseFloat(s) ==
  IF special(s) /= "none"
    THEN [err |-> "none", value |-> Float(special(s), Negative(s), <<>>, 0)]
    ELSE
      LET b == Unsigned(s)
          es == {i \in 1..Len(b) : b[i] \in {"e", "E"}}
          k == IF es = {} THEN 0 ELSE Min(es)
          mant == IF k = 0 THEN b ELSE SubSeq(b, 1, k - 1)
          ex == IF k = 0 THEN <<>> ELSE SubSeq(b, k + 1, Len(b))
          dots == {i \in 1..Len(mant) : mant[i] = "."}
          ds == SelectSeq(mant, IsDigit)
          okMant == /\ \A i \in 1..Len(mant) : IsDigit(mant[i]) \/ mant[i] = "."
                    /\ Cardinality(dots) <= 1
                    /\ ds /= <<>>
          exd == Unsigned(ex)
          okExp == k = 0 \/ (exd /= <<>> /\ \A i \in 1..Len(exd) : IsDigit(exd[i]))
          e == IF Negative(ex) THEN 0 - ExpValue(exd, 0) ELSE ExpValue(exd, 0)
          dp == IF dots = {} THEN Len(mant) ELSE Min(dots) - 1
          v == Decimal(Negative(s), ds, dp + e)
      IN IF ~(okMant /\ okExp)
           THEN [err |-> "invalid syntax", value |-> Float("finite", FALSE, <<>>, 0)]
           ELSE IF Overflows(v)
             THEN [err |-> "value out of range", value |-> Float("Inf", v.neg, <<>>, 0)]
             ELSE IF Underflows(v)
               THEN [err |-> "none", value |-> Float("finite", v.neg, <<>>, 0)]
               ELSE [err |-> "none", value |-> v]

\* processScaleData with the value taken from the second field
processScaleDataSecondField(rawData) ==
  LET fields == Fields(rawData)
      n == Len(fields)
  IN IF n < 2
       THEN [err |-> "invalid scale data format"]
       ELSE LET r == ParseFloat(fields[2])
            IN IF r.err /= "none"
                 THEN [err |-> "failed to parse value"]
                 ELSE [err |-> "none", value |-> r.value,
                       unit |-> fields[n], type |-> fields[1]]

\* BridgeManager.processScaleData
processScaleData(rawData) ==
  LET fields == Fields(rawData)
      n == Len(fields)
  IN IF n < 2
       THEN [err |-> "invalid scale data format"]
       ELSE LET r == ParseFloat(fields[n - 1])
            IN IF r.err /= "none"
                 THEN [err |-> "failed to parse value"]
                 ELSE [err |-> "none", value |-> r.value,
                       unit |-> fields[n], type |-> fields[1]]

\* The lines the device delivers: up to MaxFields fields drawn from
\* FieldTexts, one separator between them and the same padding around
\* them, and lines that carry a numeral of BigLen digits.
MaxFields == 4
BigLen == 310

FieldTexts ==
  { <<"W", "T">>, <<"g">>,
    <<"1", "2", ".", "1", "1">>, <<"-", "0", ".", "8", "4">>,
    <<"1", "e", "3", "0", "9">>, <<"1", "e", "-", "4", "0", "0">>,
    <<"1", "2", "g">>, <<"N", "a", "N">> }
Seps == { <<" ">>, <<" ", "\t", " ">> }
Pads == { <<>>, <<" ">> }
Big == [i \in 1..BigLen |-> "9"]

RECURSIVE Join(_, _)
Join(fs, sep) ==
  IF fs = <<>> THEN <<>>
  ELSE IF Len(fs) = 1 THEN fs[1]
  ELSE fs[1] \o sep \o Join(Tail(fs), sep)

Lines ==
  { pad \o Join(fs, sep) \o pad \o <<"\r", "\n">> :
      fs \in UNION {[1..n -> FieldTexts] : n \in 0..MaxFields},
      sep \in Seps, pad \in Pads }
  \cup { Join(fs, <<" ">>) \o <<"\n">> :
           fs \in {<<Big, <<"g">>>>, <<<<"W", "T">>, Big, <<"g">>>>} }

\* sendDataViaSocket with an empty raw_data
sendDataViaSocketNoRaw(scaleData, rawData) ==
  [scale_data |-> scaleData, raw_data |-> <<>>, port |-> portName]

\* sendDataViaSocket: the payload it hands to BroadcastMessage("scale_data",
\* payload); the timestamp is left out.
sendDataViaSocket(scaleData, rawData) ==
  [scale_data |-> scaleData, raw_data |-> rawData, port |-> portName]

\* ReadData returns the line raw, out of the set L; processScaleData rejects
\* it (continue) or accepts it, and then sendDataViaSocket broadcasts the
\* reading.  One line is read in a behaviour.
RunReadLineFrom(r, L) ==
  /\ panic = "none"
  /\ runPc[r] = "read"
  /\ port
  /\ parsed = NoReading
  /\ \E raw \in L :
       /\ line' = raw
       /\ parsed' = processScaleData(ReadData(raw))
  /\ IF parsed'.err /= "none"
       THEN UNCHANGED <<nBcast, hubPc, hubArg>>
       ELSE /\ nBcast' = nBcast + 1
            /\ BroadcastMessage(sendDataViaSocket(parsed', ReadData(line')))
  /\ RunLoop(r)
  /\ UNCHANGED <<gen, ctxCancelled, clients, hubGen, dropAt>>
  /\ UNCHANGED <<lastFrame, status, served, timeVars>>
  /\ UNCHANGED <<bmVars, serialVars, sessVars, panic>>

RunReadLine(r) ==
  /\ panic = "none"
  /\ RunReadLineFrom(r, Lines)

\* ---- ServeWS, readPump, writePump -------------------------------------

\* ServeWS: the upgrade succeeded on a serving listener; the client is
\* created and s.register <- client is handed to a loop blocked in its
\* select on that channel, or blocks until a loop receives it.
\* token is the request's token query parameter, as the test page sends it
\* (/ws?token=...); ServeWS does not read it.
Tokens == {"", "test-token"}

\* generateClientID: fmt.Sprintf("client_%d", time.Now().UnixNano()), t being
\* the reading of the clock.
generateClientID(t) == <<"client_", t>>

ServeWSWith(c, token) ==
  /\ panic = "none"
  /\ sst[c] = "none"
  /\ \E k \in Runs : http[k] = "serving"
  /\ sgen' = [sgen EXCEPT ![c] = gen]
  /\ id' = [id EXCEPT ![c] = generateClientID(now)]
  /\ IF ParkedOn(gen) /= {}
       THEN \E l \in ParkedOn(gen) : TakeRegister(l, c)
       ELSE /\ sst' = [sst EXCEPT ![c] = "registering"]
            /\ UNCHANGED <<rp, wp, hubPc, hubArg, pumpClocks>>
  /\ UNCHANGED <<ugen, q, sendClosed, connClosed>>
  /\ UNCHANGED <<gen, ctxCancelled, clients, hubGen>>
  /\ UNCHANGED <<bmVars, serialVars, runVars, logVars, now, steady, panic>>

ServeWS(c) ==
  /\ panic = "none"
  /\ \E token \in Tokens : ServeWSWith(c, token)

PingPayloads == {0}

\* A non-blocking send on c.send (handleMessage, SendMessage): enqueued if
\* there is room, dropped if full; a send on a closed channel panics.
TrySend(c, msg) ==
  /\ q' = [q EXCEPT ![c] = IF ~sendClosed[c] /\ HasRoom(c) THEN Append(@, msg) ELSE @]
  /\ panic' = IF sendClosed[c] THEN "send on closed channel" ELSE panic

\* ReadMessage returns a frame to readPump: the read deadline has not
\* passed, and nothing in the loop sets a new one.
FrameRead(c) ==
  /\ now < readDeadline[c]
  /\ lastRead' = [lastRead EXCEPT ![c] = now]
  /\ steady' = [steady EXCEPT ![c] = @ /\ now - lastRead[c] < PongWait]
  /\ UNCHANGED <<now, id, readDeadline, nextPing, lastWrite>>

\* readPump reads a frame {type:"ping", payload:p}; handleMessage answers
\* {type:"pong", payload:p} on the sender's own queue.
ReadPumpPing(c, p) ==
  /\ panic = "none"
  /\ rp[c] = "run"
  /\ ~connClosed[c]
  /\ FrameRead(c)
  /\ TrySend(c, Message("pong", p))
  /\ UNCHANGED <<sst, sgen, ugen, rp, wp, sendClosed, connClosed>>
  /\ UNCHANGED <<bmVars, serialVars, runVars, hubVars, logVars>>

\* What a peer may put into the "type" and "payload" of a frame; "hello"
\* stands for every type handleMessage does not know, "" for a missing one.
Kinds == {"ping", "sync-to-self", "sync-from-self", "hello", ""}
Payloads == {"x", "test data"}

\* The inbound frames: one that json.Unmarshal rejects, and the decoded ones.
Frames ==
  {[ok |-> FALSE, type |-> "", payload |-> "x"]}
    \cup {[ok |-> TRUE, type |-> k, payload |-> p] : k \in Kinds, p \in Payloads}

\* handleMessage with a reply in its default branch as well.
handleMessageAnswersAll(msg) ==
  CASE msg.type = "ping" -> <<Message("pong", msg.payload)>>
    [] msg.type = "sync-to-self" -> <<Message("sync-from-self", "pong")>>
    [] OTHER -> <<Message(msg.type, msg.payload)>>

\* handleMessage: the responses the switch on msg.Type sends on c.send.
handleMessage(msg) ==
  CASE msg.type = "ping" -> <<Message("pong", msg.payload)>>
    [] msg.type = "sync-to-self" -> <<Message("sync-from-self", "pong")>>
    [] OTHER -> <<>>

\* readPump reads frame f: a frame that does not decode is logged and the
\* loop continues; a decoded one goes to handleMessage, whose response is a
\* non-blocking send on the session's own queue.
ReadPumpFrame(c, f) ==
  /\ panic = "none"
  /\ rp[c] = "run"
  /\ ~connClosed[c]
  /\ lastFrame' = [client |-> c, ok |-> f.ok, type |-> f.type, payload |-> f.payload]
  /\ LET out == IF f.ok THEN handleMessage(f) ELSE <<>> IN
       IF out = <<>> THEN UNCHANGED <<q, panic>> ELSE TrySend(c, out[1])
  /\ FrameRead(c)
  /\ UNCHANGED <<sst, sgen, ugen, rp, wp, sendClosed, connClosed>>
  /\ UNCHANGED <<bmVars, serialVars, runVars, hubVars>>
  /\ UNCHANGED <<nBcast, dropAt, line, parsed, status, served>>

\* ReadMessage fails (peer gone, deadline, connection closed): the deferred
\* c.server.unregister <- c is handed to a loop blocked in its select on
\* that channel, or blocks until a loop receives it.
ReadPumpExit(c) ==
  /\ panic = "none"
  /\ rp[c] = "run"
  /\ ugen' = [ugen EXCEPT ![c] = gen]
  /\ IF ParkedOn(gen) /= {}
       THEN \E l \in ParkedOn(gen) : TakeUnregister(l, c)
       ELSE /\ rp' = [rp EXCEPT ![c] = "unreg"]
            /\ UNCHANGED <<connClosed, hubPc, hubArg>>
  /\ UNCHANGED <<sst, sgen, wp, q, sendClosed>>
  /\ UNCHANGED <<gen, ctxCancelled, clients, hubGen>>
  /\ UNCHANGED <<bmVars, serialVars, runVars, histVars, panic>>

\* writePump going on with the next message after a failed write.
WritePumpSendRetries(c) ==
  /\ panic = "none"
  /\ wp[c] = "run"
  /\ q[c] /= <<>>
  /\ q' = [q EXCEPT ![c] = Tail(@)]
  /\ lastWrite' = [lastWrite EXCEPT ![c] = IF connClosed[c] THEN @ ELSE now]
  /\ UNCHANGED <<now, id, readDeadline, lastRead, steady, nextPing>>
  /\ UNCHANGED <<sst, sgen, ugen, rp, wp, sendClosed, connClosed>>
  /\ UNCHANGED <<bmVars, serialVars, runVars, hubVars, logVars, panic>>

\* writePump takes a message from c.send and writes it; a failed write
\* (closed connection) ends the loop, which closes the connection.
WritePumpSend(c) ==
  /\ panic = "none"
  /\ wp[c] = "run"
  /\ q[c] /= <<>>
  /\ q' = [q EXCEPT ![c] = Tail(@)]
  /\ wp' = [wp EXCEPT ![c] = IF connClosed[c] THEN "done" ELSE "run"]
  /\ lastWrite' = [lastWrite EXCEPT ![c] = IF connClosed[c] THEN @ ELSE now]
  /\ UNCHANGED <<now, id, readDeadline, lastRead, steady, nextPing>>
  /\ UNCHANGED <<sst, sgen, ugen, rp, sendClosed, connClosed>>
  /\ UNCHANGED <<bmVars, serialVars, runVars, hubVars, logVars, panic>>

\* writePump finds c.send closed and empty: close frame, return, and the
\* deferred c.conn.Close().
WritePumpClosed(c) ==
  /\ panic = "none"
  /\ wp[c] = "run"
  /\ q[c] = <<>>
  /\ sendClosed[c]
  /\ wp' = [wp EXCEPT ![c] = "done"]
  /\ connClosed' = [connClosed EXCEPT ![c] = TRUE]
  /\ UNCHANGED <<sst, sgen, ugen, rp, q, sendClosed>>
  /\ UNCHANGED <<bmVars, serialVars, runVars, hubVars, histVars, panic>>

\* writePump takes a message from c.send and WriteMessage fails on a
\* connection nobody has closed here (peer unreachable, the 10 s write
\* deadline): return, and the deferred c.conn.Close().
WritePumpSendFails(c) ==
  /\ panic = "none"
  /\ wp[c] = "run"
  /\ q[c] /= <<>>
  /\ ~connClosed[c]
  /\ q' = [q EXCEPT ![c] = Tail(@)]
  /\ wp' = [wp EXCEPT ![c] = "done"]
  /\ connClosed' = [connClosed EXCEPT ![c] = TRUE]
  /\ UNCHANGED <<sst, sgen, ugen, rp, sendClosed>>
  /\ UNCHANGED <<bmVars, serialVars, runVars, hubVars, histVars, panic>>

\* case <-ticker.C: a ping is written; ok is the outcome of WriteMessage on
\* a connection nobody has closed here.  A failed write ends the loop,
\* which closes the connection.  The ticker fires every PingPeriod,
\* whatever has been written in between.
WritePumpPing(c, ok) ==
  /\ panic = "none"
  /\ wp[c] = "run"
  /\ now >= nextPing[c]
  /\ nextPing' = [nextPing EXCEPT ![c] = @ + PingPeriod]
  /\ IF ok /\ ~connClosed[c]
       THEN UNCHANGED <<wp, connClosed>>
       ELSE /\ wp' = [wp EXCEPT ![c] = "done"]
            /\ connClosed' = [connClosed EXCEPT ![c] = TRUE]
  /\ UNCHANGED <<now, id, readDeadline, lastRead, steady, lastWrite>>
  /\ UNCHANGED <<sst, sgen, ugen, rp, q, sendClosed>>
  /\ UNCHANGED <<bmVars, serialVars, runVars, hubVars, logVars, panic>>

\* The pong handler readPump installed: lastPong and a new read deadline.
PongReceived(c) ==
  /\ panic = "none"
  /\ rp[c] = "run"
  /\ ~connClosed[c]
  /\ now < readDeadline[c]
  /\ readDeadline' = [readDeadline EXCEPT ![c] = now + PongWait]
  /\ UNCHANGED <<now, id, lastRead, steady, nextPing, lastWrite>>
  /\ UNCHANGED <<bmVars, serialVars, runVars, hubVars, sessVars, logVars, panic>>

\* ReadMessage fails because the read deadline has passed.
ReadPumpDeadline(c) ==
  /\ now >= readDeadline[c]
  /\ ReadPumpExit(c)

\* Time passes.
Tick ==
  /\ panic = "none"
  /\ now < MaxTime
  /\ now' = now + Quantum
  /\ UNCHANGED <<id, readDeadline, lastRead, steady, nextPing, lastWrite>>
  /\ UNCHANGED <<bmVars, serialVars, runVars, hubVars, sessVars, logVars, panic>>

\* ---- the system -------------------------------------------------------
\* A runtime panic ends the process: every step requires panic = "none".

Next ==
  \/ StartRejected
  \/ StartBegin
  \/ StartConnectOK
  \/ StartConnectFail
  \/ StartFailClear
  \/ StartFailReturn
  \/ StopRejected
  \/ StopBegin
  \/ StopWaitDone
  \/ StopWaitTimeout
  \/ StopServerClear
  \/ StopHTTP
  \/ StopDisconnect
  \/ \E k \in Runs : HTTPExit(k)
  \/ \E l \in Runs : HubCtxDone(l)
  \/ \E l \in Runs, c \in LifeSessions : HubRecvRegister(l, c)
  \/ \E l \in Runs : HubRegister(l)
  \/ \E l \in Runs, c \in LifeSessions : HubRecvUnregister(l, c)
  \/ \E l \in Runs : HubUnregister(l)
  \/ \E l \in Runs : HubBroadcast(l)
  \/ \E r \in Runs : RunStop(r)
  \/ \E r \in Runs : RunTick(r)
  \/ \E r \in Runs : RunReadNothing(r)
  \/ \E r \in Runs : RunReadBroadcast(r, LifeBcast)
  \/ \E c \in LifeSessions : ServeWS(c)
  \/ \E c \in LifeSessions : ReadPumpExit(c)
  \/ \E c \in LifeSessions : WritePumpSend(c)
  \/ \E c \in LifeSessions : WritePumpClosed(c)

\* The bridge from construction on, through its start/stop cycles.
Spec == Init /\ [][Next]_vars

\* The bridge in its first run: Start has returned nil, the hub loop, the
\* listener and the polling loop are live, nobody calls Start or Stop.
FirstRun ==
  /\ isRunning = TRUE
  /\ stopChan = 2
  /\ stopClosed = {}
  /\ httpServer = 1
  /\ http = [k \in Runs |-> IF k = 1 THEN "serving" ELSE "none"]
  /\ wg = 2
  /\ ctl = "idle"
  /\ nStart = 1
  /\ lastRes = "started"
  /\ port = TRUE
  /\ portName = "dev"
  /\ runPc = [r \in Runs |-> IF r = 1 THEN "select" ELSE "none"]
  /\ runCh = [r \in Runs |-> IF r = 1 THEN 2 ELSE NoChan]
  /\ gen = 1
  /\ ctxCancelled = {0}
  /\ clients = {}
  /\ hubPc = [l \in Runs |-> IF l = 1 THEN "select" ELSE "none"]
  /\ hubGen = [l \in Runs |-> IF l = 1 THEN 1 ELSE 0]
  /\ hubArg = [l \in Runs |-> 0]
  /\ sst = [c \in Clients |-> "none"]
  /\ sgen = [c \in Clients |-> 0]
  /\ ugen = [c \in Clients |-> 0]
  /\ rp = [c \in Clients |-> "none"]
  /\ wp = [c \in Clients |-> "none"]
  /\ q = [c \in Clients |-> <<>>]
  /\ sendClosed = [c \in Clients |-> FALSE]
  /\ connClosed = [c \in Clients |-> FALSE]
  /\ nBcast = 0
  /\ dropAt = [c \in Clients |-> 0]
  /\ panic = "none"

HubInit == FirstRun /\ NoInput /\ NoSessionClock

HubNext ==
  \/ \E l \in Runs, c \in Clients : HubRecvRegister(l, c)
  \/ \E l \in Runs : HubRegister(l)
  \/ \E l \in Runs, c \in Clients : HubRecvUnregister(l, c)
  \/ \E l \in Runs : HubUnregister(l)
  \/ \E l \in Runs : HubBroadcast(l)
  \/ \E r \in Runs : RunTick(r)
  \/ \E r \in Runs : RunReadNothing(r)
  \/ \E r \in Runs : RunReadBroadcast(r, MaxBcast)
  \/ \E c \in Clients : ServeWS(c)
  \/ \E c \in Clients, p \in PingPayloads : ReadPumpPing(c, p)
  \/ \E c \in Clients : ReadPumpExit(c)
  \/ \E c \in Clients : WritePumpSend(c)
  \/ \E c \in Clients : WritePumpClosed(c)

HubSpec == HubInit /\ [][HubNext]_vars

\* HubInit is a state of Spec: the one Start leaves behind.
HubInitReached == ~HubInit

\* The bridge in its first run with the peers sending frames of every kind.
FrameNext ==
  \/ \E l \in Runs, c \in Clients : HubRecvRegister(l, c)
  \/ \E l \in Runs : HubRegister(l)
  \/ \E l \in Runs, c \in Clients : HubRecvUnregister(l, c)
  \/ \E l \in Runs : HubUnregister(l)
  \/ \E l \in Runs : HubBroadcast(l)
  \/ \E r \in Runs : RunTick(r)
  \/ \E r \in Runs : RunReadNothing(r)
  \/ \E r \in Runs : RunReadBroadcast(r, LifeBcast)
  \/ \E c \in Clients : ServeWS(c)
  \/ \E c \in Clients, f \in Frames : ReadPumpFrame(c, f)
  \/ \E c \in Clients : ReadPumpExit(c)
  \/ \E c \in Clients : WritePumpSend(c)
  \/ \E c \in Clients : WritePumpClosed(c)

FrameSpec == HubInit /\ [][FrameNext]_vars

\* A session of a running bridge as time passes: the upgrade, ping frames
\* and keepalive acknowledgments from the peer, the read deadline, the
\* ticker of writePump and failing writes.
KeepaliveNext ==
  \/ Tick
  \/ \E l \in Runs : HubRegister(l)
  \/ \E l \in Runs, c \in LifeSessions : HubRecvUnregister(l, c)
  \/ \E l \in Runs : HubUnregister(l)
  \/ \E c \in LifeSessions : ServeWS(c)
  \/ \E c \in LifeSessions, p \in PingPayloads : ReadPumpPing(c, p)
  \/ \E c \in LifeSessions : PongReceived(c)
  \/ \E c \in LifeSessions : ReadPumpDeadline(c)
  \/ \E c \in LifeSessions : ReadPumpExit(c)
  \/ \E c \in LifeSessions : WritePumpSend(c)
  \/ \E c \in LifeSessions : WritePumpSendFails(c)
  \/ \E c \in LifeSessions, ok \in BOOLEAN : WritePumpPing(c, ok)
  \/ \E c \in LifeSessions : WritePumpClosed(c)

KeepaliveSpec == HubInit /\ [][KeepaliveNext]_vars

\* The upgrades of a running bridge as time passes.
AcceptNext ==
  \/ Tick
  \/ \E c \in Clients : ServeWS(c)
  \/ \E l \in Runs, c \in Clients : HubRecvRegister(l, c)
  \/ \E l \in Runs : HubRegister(l)

AcceptSpec == HubInit /\ [][AcceptNext]_vars

\* The start/stop cycles with upgrades and GetStatus calls; no device
\* lines and no frames, so a register always finds the hub loop in its
\* select or finds none.
StatusNext ==
  \/ StartRejected
  \/ StartBegin
  \/ StartConnectOK
  \/ StartConnectFail
  \/ StartFailClear
  \/ StartFailReturn
  \/ StopRejected
  \/ StopBegin
  \/ StopWaitDone
  \/ StopWaitTimeout
  \/ StopServerClear
  \/ StopHTTP
  \/ StopDisconnect
  \/ GetStatusCall
  \/ \E k \in Runs : HTTPExit(k)
  \/ \E l \in Runs : HubCtxDone(l)
  \/ \E l \in Runs : HubRegister(l)
  \/ \E r \in Runs : RunStop(r)
  \/ \E c \in LifeSessions : ServeWS(c)

StatusSpec == Init /\ [][StatusNext]_vars

\* The polling loop and the hub of a running bridge without sessions, one
\* device line read.
ParseNext ==
  \/ \E r \in Runs : RunTick(r)
  \/ \E r \in Runs : RunReadNothing(r)
  \/ \E r \in Runs : RunReadLine(r)
  \/ \E l \in Runs : HubBroadcast(l)

ParseSpec == HubInit /\ [][ParseNext]_vars

\* The bridge in its second run with the hub loop of the first run still
\* alive: that loop received a register before Stop, was not scheduled until
\* after the next Start, then inserted the client into the new map and
\* went round to a select on the new context and channels.
StaleInit ==
  /\ isRunning = TRUE
  /\ stopChan = 3
  /\ stopClosed = {2}
  /\ httpServer = 2
  /\ http = [k \in Runs |-> IF k = 1 THEN "closing" ELSE IF k = 2 THEN "serving" ELSE "none"]
  /\ wg = 4
  /\ ctl = "idle"
  /\ nStart = 2
  /\ lastRes = "started"
  /\ port = TRUE
  /\ portName = "dev"
  /\ runPc = [r \in Runs |-> IF r <= 2 THEN "select" ELSE "none"]
  /\ runCh = [r \in Runs |-> IF r <= 2 THEN r + 1 ELSE NoChan]
  /\ gen = 2
  /\ ctxCancelled = {0, 1}
  /\ clients = {1}
  /\ hubPc = [l \in Runs |-> IF l <= 2 THEN "select" ELSE "none"]
  /\ hubGen = [l \in Runs |-> IF l <= 2 THEN 2 ELSE 0]
  /\ hubArg = [l \in Runs |-> 0]
  /\ sst = [c \in Clients |-> IF c = 1 THEN "open" ELSE "none"]
  /\ sgen = [c \in Clients |-> IF c = 1 THEN 1 ELSE 0]
  /\ ugen = [c \in Clients |-> 0]
  /\ rp = [c \in Clients |-> IF c = 1 THEN "run" ELSE "none"]
  /\ wp = [c \in Clients |-> IF c = 1 THEN "run" ELSE "none"]
  /\ q = [c \in Clients |-> <<>>]
  /\ sendClosed = [c \in Clients |-> FALSE]
  /\ connClosed = [c \in Clients |-> FALSE]
  /\ nBcast = 0
  /\ dropAt = [c \in Clients |-> 0]
  /\ NoInput
  /\ id = [c \in Clients |-> IF c = 1 THEN generateClientID(0) ELSE NoId]
  /\ readDeadline = [c \in Clients |-> IF c = 1 THEN PongWait ELSE 0]
  /\ lastRead = [c \in Clients |-> 0]
  /\ nextPing = [c \in Clients |-> IF c = 1 THEN PingPeriod ELSE 0]
  /\ lastWrite = [c \in Clients |-> 0]
  /\ panic = "none"

StaleNext ==
  \/ HubNext
  \/ \E l \in Runs, m \in Runs : HubBroadcastOverlap(l, m)
  \/ \E r \in Runs : RunStop(r)

StaleSpec == StaleInit /\ [][StaleNext]_vars

\* The second run with the hub loop of the first run still alive, the
\* fan-out of a broadcast taken member by member: upgrades, two readings,
\* and the sessions writing what they are sent.
OrderNext ==
  \/ \E c \in Clients : ServeWS(c)
  \/ \E l \in Runs, c \in Clients : HubRecvRegister(l, c)
  \/ \E l \in Runs : HubRegister(l)
  \/ \E r \in Runs : RunTick(r)
  \/ \E r \in Runs : RunReadBroadcast(r, OrderBcast)
  \/ \E l \in Runs, c \in Clients : HubFanOutStep(l, c, OrderCap)
  \/ \E l \in Runs : HubFanOutEnd(l)
  \/ \E c \in Clients : WritePumpSend(c)

OrderSpec == StaleInit /\ [][OrderNext]_vars

\* StaleInit is a state of Spec.
StaleInitReached == ~StaleInit

\* ---- claims -----------------------------------------------------------

\* The first step of a Start() / Stop() call that has taken bm.mu.
StartCalled == StartRejected \/ StartBegin
StopCalled == StopRejected \/ StopBegin

\* Everything but the result handed to the caller.
programState ==
  <<isRunning, stopChan, stopClosed, httpServer, http, wg, ctl, nStart,
    serialVars, runVars, hubVars, sessVars, histVars, panic>>

\* C1: Start called while the bridge is running (in particular right after
\* a Start that succeeded) returns "already running" and leaves isRunning,
\* the stop channel, the listener handle, the hub (context, channels,
\* membership, loops), the sessions and the device handle as they were.
C1_StartWhileRunning ==
  [][ ((isRunning \/ (ctl = "idle" /\ lastRes = "started")) /\ StartCalled)
        => (lastRes' = "already running" /\ UNCHANGED programState) ]_vars

\* A second Start was rejected while a session is a member of the hub.
C1_Witness ==
  /\ lastRes = "already running"
  /\ isRunning /\ ctl = "idle"
  /\ clients /= {}

\* C2: Stop called while the bridge is not running (never started, after a
\* failed Start, after a Stop that succeeded) returns "not running" and
\* leaves the whole state as it was.
C2_StopWhileStopped ==
  [][ ((~isRunning
          \/ (ctl = "idle" /\ lastRes \in {"none", "connect failed", "stopped"}))
       /\ StopCalled)
        => (lastRes' = "not running" /\ UNCHANGED programState) ]_vars

\* A Stop was rejected after an earlier Stop had closed a stop channel.
C2_Witness ==
  /\ lastRes = "not running"
  /\ ~isRunning /\ ctl = "idle"
  /\ stopClosed /= {}

NoPanic == panic = "none"

\* The caller inside Stop is scheduled, time.After(3s) and time.Sleep(100ms)
\* expire, s.mu is held by others only for bounded critical sections,
\* Shutdown is bounded by its 5s context and the close of the port returns.
FairSpec ==
  /\ Spec
  /\ WF_vars(StopWaitTimeout)
  /\ WF_vars(StopServerClear)
  /\ WF_vars(StopHTTP)
  /\ WF_vars(StopDisconnect)

\* C4: every Stop that passed the guard returns, wherever the polling loop,
\* the hub loops and the session loops are.
C4_StopReturns == (ctl = "stop_wait") ~> (ctl = "idle" /\ lastRes = "stopped")

\* Stop has returned while a polling loop is still inside its device read
\* and a session loop is still blocked.
C4_Witness ==
  /\ lastRes = "stopped" /\ ctl = "idle"
  /\ \E r \in Runs : runPc[r] = "read"
  /\ \E c \in Clients : rp[c] = "unreg"

\* C5: from the return of Stop until the next call, count() on the hub is 0.
C5_CountZeroAfterStop ==
  (lastRes = "stopped" /\ ctl = "idle") => GetConnectedClientsCount = 0

\* C6: once a Stop and a later successful Start have completed, no session
\* created before the latest resetServer is a member of the hub.
C6_NoMemberOfPreviousRun ==
  (stopClosed /= {} /\ isRunning /\ ctl = "idle")
    => \A c \in clients : sgen[c] = gen

\* The sessions whose register request the hub has received and whose
\* unregister request it has not.
Remaining == {c \in Clients : sst[c] = "open" /\ rp[c] /= "done"}

\* C7: with the hub loop running and idle (every request handed to it has
\* been processed) and no session dropped for backpressure, count() is the
\* number of sessions registered and not unregistered.
C7_MembershipAccounting ==
  (hubPc[1] = "select" /\ \A c \in Clients : dropAt[c] = 0)
    => GetConnectedClientsCount = Cardinality(Remaining)

\* Two sessions were registered, one of them has been unregistered and the
\* other one is what count() reports.
C7_Witness ==
  /\ hubPc[1] = "select"
  /\ \A c \in Clients : dropAt[c] = 0
  /\ \E c, d \in Clients :
       /\ sst[c] = "open" /\ rp[c] = "done"
       /\ sst[d] = "open" /\ rp[d] /= "done"
       /\ clients = {d}

\* C8: a broadcast issued through BroadcastMessage while the hub loop is
\* running reaches the hub loop, which offers it to the members.
C8_BroadcastReachesHub ==
  [][ nBcast' /= nBcast
        => \E l \in Runs : hubPc'[l] = "bcast" /\ hubArg'[l] = nBcast' ]_vars

\* Loop l processes the broadcast it holds in this step.
Processes(l) == hubPc[l] = "bcast" /\ hubPc'[l] /= "bcast"

\* Nothing is enqueued on c.send in this step.
NotEnqueued(c) == q'[c] = q[c] \/ (q[c] /= <<>> /\ q'[c] = Tail(q[c]))

\* C9: a member whose queue is full when the hub processes a broadcast is
\* removed from the map and its queue closed in that step, and from then on
\* it is never a member and nothing is enqueued on its queue.
C9_BackpressureDrop ==
  [][ /\ \A l \in Runs : Processes(l) =>
           \A c \in clients : ~HasRoom(c) =>
              c \notin clients' /\ sendClosed'[c] /\ dropAt'[c] = hubArg[l]
      /\ \A c \in Clients : dropAt[c] /= 0 =>
           c \notin clients' /\ sendClosed'[c] /\ NotEnqueued(c) ]_vars

\* A session was dropped by one broadcast and a later broadcast has been
\* delivered to another session.
C9_Witness ==
  \E c, d \in Clients :
    /\ dropAt[c] /= 0
    /\ q[d] /= <<>>
    /\ q[d][Len(q[d])].type = "scale_data"
    /\ q[d][Len(q[d])].payload > dropAt[c]

\* C10: when the hub processes a broadcast and some member's queue is full,
\* every member whose queue has room gets exactly one copy appended and
\* stays a member, and the loop is back at its select.
C10_OthersUnaffected ==
  [][ \A l \in Runs : (Processes(l) /\ \E c \in clients : ~HasRoom(c)) =>
        /\ \A d \in clients : HasRoom(d) =>
              /\ q'[d] = Append(q[d], Message("scale_data", hubArg[l]))
              /\ d \in clients'
              /\ ~sendClosed'[d]
        /\ hubPc'[l] = "select"
        /\ panic' = "none" ]_vars

\* One broadcast dropped a member and was enqueued for another member.
C10_Witness ==
  \E c, d \in Clients :
    /\ dropAt[c] /= 0
    /\ d \in clients
    /\ q[d] /= <<>>
    /\ q[d][Len(q[d])] = Message("scale_data", dropAt[c])

\* C11: whatever unregister, the backpressure drop of a broadcast,
\* Server.Stop and resetServer do and in whatever order, no send channel is
\* closed twice: the runtime never raises "close of closed channel".
C11_NoDoubleClose == panic /= "close of closed channel"

\* C12: a readPump step that reads a decoded "ping" frame with payload p
\* appends exactly {type: "pong", payload: p} to the sender's queue and
\* nothing to any other queue, whatever the sender's queue holds.
C12_PingYieldsPong ==
  [][ \A c \in Clients, f \in Frames :
        (ReadPumpFrame(c, f) /\ f.ok /\ f.type = "ping") =>
          /\ q'[c] = Append(q[c], Message("pong", f.payload))
          /\ \A d \in Clients \ {c} : q'[d] = q[d]
          /\ panic' = "none" ]_vars

\* C13: a readPump step that reads a decoded "sync-to-self" frame appends
\* {type: "sync-from-self", payload: "pong"} to the sender's queue, whatever
\* the payload of the request, and nothing to any other queue.
C13_SyncYieldsFixedReply ==
  [][ \A c \in Clients, f \in Frames :
        (ReadPumpFrame(c, f) /\ f.ok /\ f.type = "sync-to-self") =>
          /\ q'[c] = Append(q[c], Message("sync-from-self", "pong"))
          /\ \A d \in Clients \ {c} : q'[d] = q[d]
          /\ panic' = "none" ]_vars

\* The frames that get no response: undecodable, or of a type other than
\* "ping" and "sync-to-self".
Ignored(f) == ~f.ok \/ f.type \notin {"ping", "sync-to-self"}

\* C14: a readPump step that reads an undecodable frame, a "sync-from-self"
\* frame or a frame of an unknown type enqueues nothing on any queue,
\* changes no membership, closes nothing, and leaves the readPump running
\* on an open connection.
C14_IgnoredFrames ==
  [][ \A c \in Clients, f \in Frames :
        (ReadPumpFrame(c, f) /\ Ignored(f)) =>
          /\ q' = q
          /\ clients' = clients
          /\ sendClosed' = sendClosed /\ connClosed' = connClosed
          /\ rp'[c] = "run" /\ ~connClosed'[c]
          /\ panic' = "none" ]_vars

\* A member has sent a frame of an unknown type after an undecodable one
\* could have been sent: it is still a member with its pumps running, next
\* to another member, and no queue holds anything.
C14_Witness ==
  /\ lastFrame.ok /\ lastFrame.type = "hello"
  /\ lastFrame.client \in clients
  /\ rp[lastFrame.client] = "run" /\ wp[lastFrame.client] = "run"
  /\ Cardinality(clients) = 2
  /\ \A c \in Clients : q[c] = <<>>

\* ---- C15, C16: device lines --------------------------------------------

AllDigits(s) == s /= <<>> /\ \A i \in 1..Len(s) : IsDigit(s[i])

\* A decimal number as the specification means it: an optional sign,
\* digits, optionally a point and digits, optionally an exponent.
IsDecimalNumber(f) ==
  LET b == Unsigned(f)
      es == {i \in 1..Len(b) : b[i] \in {"e", "E"}}
      m == IF es = {} THEN b ELSE SubSeq(b, 1, Min(es) - 1)
      x == IF es = {} THEN <<"0">> ELSE Unsigned(SubSeq(b, Min(es) + 1, Len(b)))
      dots == {i \in 1..Len(m) : m[i] = "."}
  IN /\ AllDigits(x)
     /\ IF dots = {}
          THEN AllDigits(m)
          ELSE \E d \in dots : /\ AllDigits(SubSeq(m, 1, d - 1))
                               /\ AllDigits(SubSeq(m, d + 1, Len(m)))

InFloat64Range(f) == ParseFloat(f).err /= "value out of range"

Reading(f) ==
  [err |-> "none", value |-> ParseFloat(f[Len(f) - 1]).value,
   unit |-> f[Len(f)], type |-> f[1]]

\* C15 as stated: every line read so far that splits into n >= 2 fields with
\* a decimal number in field n-1 was parsed without error into the reading
\* {tag: field 1, value: field n-1, unit: field n}.
C15_DecimalFieldParses ==
  parsed /= NoReading =>
    LET f == Fields(line)
    IN (Len(f) >= 2 /\ IsDecimalNumber(f[Len(f) - 1])) => parsed = Reading(f)

\* C15 amended: the same for decimal numbers within the range of a 64-bit
\* float; a numeral beyond it (1e309, a numeral of 310 digits) is a parse
\* error like a non-numeric field.
C15_InRangeDecimalFieldParses ==
  parsed /= NoReading =>
    LET f == Fields(line)
    IN (/\ Len(f) >= 2
        /\ IsDecimalNumber(f[Len(f) - 1])
        /\ InFloat64Range(f[Len(f) - 1])) => parsed = Reading(f)

\* A four-field line with a non-numeric second field was parsed and
\* broadcast: the value came from the third field.
C15_Witness ==
  /\ parsed /= NoReading
  /\ parsed.err = "none"
  /\ nBcast = 1
  /\ Len(Fields(line)) = 4
  /\ ~IsDecimalNumber(Fields(line)[2])
  /\ IsDecimalNumber(Fields(line)[3])
  /\ parsed.value = ParseFloat(Fields(line)[3]).value
  /\ parsed.value /= ParseFloat(<<"0">>).value

\* C16: a line read so far with fewer than two fields, or with a
\* second-to-last field that is not a number, gave a parse error and no
\* broadcast, and the polling loop is still running.
C16_MalformedLineDropped ==
  parsed /= NoReading =>
    LET f == Fields(line)
    IN (Len(f) < 2 \/ ~IsDecimalNumber(f[Len(f) - 1])) =>
         /\ parsed.err /= "none"
         /\ nBcast = 0
         /\ \A l \in Runs : hubPc[l] /= "bcast"
         /\ runPc[1] \in {"select", "read"}

\* ---- C17: discovery ----------------------------------------------------

\* C17: whenever Start is about to connect the device, for the first time
\* or after a run that connected and was stopped, no connect that finds no
\* matching device can succeed, whether or not the open call would succeed
\* on the name at hand.
C17_NoMatchFails ==
  (ctl = "start_connect" /\ (nStart = 1 \/ lastRes = "stopped")) =>
    \A opens \in BOOLEAN : ~ENABLED StartConnectOKWith(FALSE, opens)

\* ---- C18: the upgrade endpoint ------------------------------------------

\* C18: in no state can a request with an empty or missing token create a
\* session.
C18_EmptyTokenRejected ==
  \A c \in Clients : ~ENABLED ServeWSWith(c, "")

\* ---- C19: GetStatus -----------------------------------------------------

\* C19: GetStatus can be called whenever no Start or Stop is in progress
\* (before the first Start, while running, after Stop, after a failed
\* Start); every call returns the current isRunning flag, device-connected
\* flag and hub membership size and changes nothing else.
C19_StatusSnapshot ==
  /\ []((ctl = "idle" /\ panic = "none") => ENABLED GetStatusCall)
  /\ [][GetStatusCall =>
          /\ status'.running = isRunning
          /\ status'.serial_connected = port
          /\ status'.connected_clients = Cardinality(clients)
          /\ UNCHANGED <<bmVars, serialVars, runVars, hubVars, sessVars, panic>>
        ]_vars

\* GetStatus was called on a running bridge with one member, after an
\* earlier run was stopped.
C19_Witness ==
  /\ status = [running |-> TRUE, serial_connected |-> TRUE,
               websocket_server |-> TRUE, connected_clients |-> 1]
  /\ isRunning /\ port /\ Cardinality(clients) = 1
  /\ nStart = 2

\* ---- C20: Disconnect ------------------------------------------------------

\* C20: in every state, Disconnect leaves the device not connected and, on
\* a connected device, returns what closing the handle returned; a second
\* call, or a call on a device that is not connected, changes nothing and
\* returns no error.  After a Stop the device is not connected.
C20_DisconnectIdempotent ==
  /\ \A closes \in CloseResults, again \in CloseResults :
       LET first == DisconnectResult(port, closes)
           second == DisconnectResult(first.port, again)
       IN /\ ~first.port
          /\ port => first.err = closes
          /\ ~port => first.err = "nil"
          /\ second.port = first.port
          /\ second.err = "nil"
  /\ lastRes = "stopped" => ~port

\* Stop has called Disconnect on the connected device of the second run.
C20_Witness == lastRes = "stopped" /\ ~port /\ nStart = 2 /\ ctl = "idle"

\* ---- C21, C22: the polling loop ------------------------------------------

\* The polling loops that are running and hold no stop signal: the channel
\* their last select read from bm.stopChan is nil or open.
LiveRuns ==
  {r \in Runs : runPc[r] \in {"select", "read"} /\ runCh[r] \notin stopClosed}

\* C21: at most one polling loop is live at any time.
C21_OnePollingLoop == Cardinality(LiveRuns) <= 1

\* The start/stop cycles with the polling loop and the hub loop, without
\* sessions.
RunNext ==
  \/ StartRejected
  \/ StartBegin
  \/ StartConnectOK
  \/ StartConnectFail
  \/ StartFailClear
  \/ StartFailReturn
  \/ StopRejected
  \/ StopBegin
  \/ StopWaitDone
  \/ StopWaitTimeout
  \/ StopServerClear
  \/ StopHTTP
  \/ StopDisconnect
  \/ \E k \in Runs : HTTPExit(k)
  \/ \E l \in Runs : HubCtxDone(l)
  \/ \E l \in Runs : HubBroadcast(l)
  \/ \E r \in Runs : RunStop(r)
  \/ \E r \in Runs : RunTick(r)
  \/ \E r \in Runs : RunReadNothing(r)
  \/ \E r \in Runs : RunReadBroadcast(r, LifeBcast)

\* Every goroutine is scheduled: the caller inside Stop as in FairSpec, each
\* polling loop at its select (the ticker fires, a closed channel is
\* received from) and in its tick body (ReadData returns within the read
\* timeout), each hub loop in its broadcast case.  Start and Stop calls are
\* up to the caller.
RunFairSpec ==
  /\ Init /\ [][RunNext]_vars
  /\ WF_vars(StopWaitTimeout)
  /\ WF_vars(StopServerClear)
  /\ WF_vars(StopHTTP)
  /\ WF_vars(StopDisconnect)
  /\ \A r \in Runs : WF_vars(RunStop(r)) /\ WF_vars(RunTick(r))
  /\ \A r \in Runs : WF_vars(RunReadNothing(r))
  /\ \A l \in Runs : WF_vars(HubBroadcast(l)) /\ WF_vars(HubCtxDone(l))

\* run r selects on the channel Start number r made.
StopSignalled(r) == (r + 1) \in stopClosed

\* C22: once Stop has closed the stop channel of a run, the polling loop of
\* that run exits, wherever it was at the close and with no further Start.
C22_StopSignalEndsLoop ==
  \A r \in Runs :
    (StopSignalled(r) /\ runPc[r] \in {"select", "read"}) ~> (runPc[r] = "done")

\* ---- C23, C24: session loops and hub shutdown ---------------------------

\* A running bridge with one session slot, up to and including one Stop.
TeardownNext ==
  \/ StopRejected
  \/ StopBegin
  \/ StopWaitDone
  \/ StopWaitTimeout
  \/ StopServerClear
  \/ StopHTTP
  \/ StopDisconnect
  \/ \E k \in Runs : HTTPExit(k)
  \/ \E l \in Runs : HubCtxDone(l)
  \/ \E l \in Runs, c \in LifeSessions : HubRecvRegister(l, c)
  \/ \E l \in Runs : HubRegister(l)
  \/ \E l \in Runs, c \in LifeSessions : HubRecvUnregister(l, c)
  \/ \E l \in Runs : HubUnregister(l)
  \/ \E l \in Runs : HubBroadcast(l)
  \/ \E r \in Runs : RunStop(r)
  \/ \E r \in Runs : RunTick(r)
  \/ \E r \in Runs : RunReadNothing(r)
  \/ \E r \in Runs : RunReadBroadcast(r, LifeBcast)
  \/ \E c \in LifeSessions : ServeWS(c)
  \/ \E c \in LifeSessions : ReadPumpExit(c)
  \/ \E c \in LifeSessions : WritePumpSend(c)
  \/ \E c \in LifeSessions : WritePumpClosed(c)

\* Every goroutine is scheduled: the caller inside Stop, the hub loop in
\* each of its cases, the polling loop, and both loops of a session; every
\* ReadMessage ends at the latest with its read deadline.
TeardownFairSpec ==
  /\ HubInit /\ [][TeardownNext]_vars
  /\ WF_vars(StopWaitTimeout)
  /\ WF_vars(StopServerClear)
  /\ WF_vars(StopHTTP)
  /\ WF_vars(StopDisconnect)
  /\ \A l \in Runs : /\ WF_vars(HubCtxDone(l))
                      /\ WF_vars(HubRegister(l))
                      /\ WF_vars(HubUnregister(l))
                      /\ WF_vars(HubBroadcast(l))
  /\ \A l \in Runs, c \in LifeSessions : /\ WF_vars(HubRecvRegister(l, c))
                                         /\ WF_vars(HubRecvUnregister(l, c))
  /\ \A r \in Runs : WF_vars(RunStop(r)) /\ WF_vars(RunReadNothing(r))
  /\ \A c \in LifeSessions : /\ WF_vars(ReadPumpExit(c))
                             /\ WF_vars(WritePumpSend(c))
                             /\ WF_vars(WritePumpClosed(c))

\* C23: an inbound loop that has left its read loop and is sending its
\* unregister request gets it received by a hub loop, and then closes the
\* connection and terminates.
C23_UnregisterHandedOver ==
  \A c \in LifeSessions : (rp[c] = "unreg") ~> (rp[c] = "done" /\ connClosed[c])

\* C24: every member at the moment Server.Stop begins gets its queue and
\* its connection closed, and both of its loops terminate.
C24_TeardownEndsLoops ==
  \A c \in LifeSessions :
    (ctl = "stop_sleep" /\ c \in clients)
      ~> (sendClosed[c] /\ connClosed[c] /\ rp[c] = "done" /\ wp[c] = "done")

\* ---- C25: hub loops -----------------------------------------------------

\* The hub loops that are running on the context and channels of
\* generation g.
Consumers(g) == {l \in Runs : hubPc[l] \notin {"none", "done"} /\ hubGen[l] = g}

\* C25: at most one hub loop consumes the channels of the current
\* generation, and a loop started by an earlier Server.Start never does.
C25_OneHubLoop ==
  /\ Cardinality(Consumers(gen)) <= 1
  /\ \A l \in Consumers(gen) : l = gen

\* ---- C26: the order of Stop ----------------------------------------------

\* C26: Stop goes through its steps in this order, each step doing its own
\* work and leaving the later steps' objects alone: close the stop channel;
\* after the wait (done or timed out) cancel the hub; close and clear the
\* members; shut the listener down; disconnect the device and return.  The
\* device is disconnected in the last step only, and GetStatus observes the
\* bridge only when no Stop is in progress.
C26_StopOrder ==
  [][ /\ (ctl = "idle" /\ ctl' = "stop_wait") =>
           /\ stopChan \in stopClosed' /\ stopChan' = NoChan
           /\ UNCHANGED <<ctxCancelled, clients, http, httpServer, port>>
      /\ (ctl = "stop_wait" /\ ctl' /= ctl) =>
           /\ ctl' = "stop_sleep"
           /\ gen \in ctxCancelled'
           /\ UNCHANGED <<clients, sendClosed, connClosed, http, httpServer, port>>
      /\ (ctl = "stop_sleep" /\ ctl' /= ctl) =>
           /\ ctl' = "stop_http"
           /\ clients' = {}
           /\ \A c \in clients : sendClosed'[c] /\ connClosed'[c]
           /\ UNCHANGED <<http, httpServer, port>>
      /\ (ctl = "stop_http" /\ ctl' /= ctl) =>
           /\ ctl' = "stop_serial"
           /\ httpServer' = NoChan
           /\ \A k \in Runs : http'[k] /= "serving" \/ k /= httpServer
           /\ UNCHANGED port
      /\ (ctl = "stop_serial" /\ ctl' /= ctl) =>
           /\ ctl' = "idle"
           /\ ~port'
           /\ lastRes' = "stopped"
      /\ (port /\ ~port') => ctl = "stop_serial"
      /\ GetStatusCall => ctl = "idle"
    ]_vars

\* A Stop that closed a member's queue and connection has returned, and
\* GetStatus has then reported the bridge as not running.
C26_Witness ==
  /\ lastRes = "stopped" /\ ctl = "idle" /\ ~port
  /\ \E c \in Clients : sendClosed[c] /\ connClosed[c]
  /\ status.websocket_server /\ ~status.running /\ ~status.serial_connected

\* ---- C27, C28: the membership map ----------------------------------------

\* C27: every step that changes the membership set is a step of a hub loop
\* (its register, unregister or broadcast case).
C27_OnlyHubMutates ==
  [][ clients' /= clients =>
        \E l \in Runs : HubRegister(l) \/ HubUnregister(l) \/ HubBroadcast(l) ]_vars

\* Loop l is in a case whose body inserts into or deletes from the map.
Mutates(l) ==
  \/ hubPc[l] = "reg" /\ hubArg[l] \notin clients
  \/ hubPc[l] = "unreg" /\ hubArg[l] \in clients
  \/ hubPc[l] = "bcast" /\ \E c \in clients : ~HasRoom(c)

\* C28: while a hub loop runs a case that mutates the membership map, no
\* count() can be reading the map: the loop holds the write lock.
C28_MutationExcludesCount ==
  \A l \in Runs : Mutates(l) => ~CountCanRead(l)

\* ---- C29: the device handle -----------------------------------------------

\* Polling loop r is inside ReadData.
InReadData(r) == runPc[r] = "read"

\* C29: Stop is never about to disconnect the device while a polling loop
\* is inside ReadData, and no polling loop is inside ReadData on a handle
\* that has been disconnected.
C29_DeviceAccessSerialised ==
  \A r \in Runs :
    InReadData(r) => (ctl /= "stop_serial" /\ port)

\* ---- C30: one tick of the polling loop -----------------------------------

\* A few device lines: a reading with a tag, a two-field reading, a line
\* with a non-numeric value field, a one-field line and an empty line.
TickLines ==
  { <<" ", "W", "T", " ", " ", "1", "2", ".", "1", "1", " ", "g", "\r", "\n">>,
    <<"-", "0", ".", "8", "4", " ", "g", "\n">>,
    <<"W", "T", " ", "1", "2", "g", " ", "g", "\n">>,
    <<"g", "\n">>,
    <<"\r", "\n">> }

\* A running bridge without sessions, its polling loop reading one line,
\* up to and including one Stop.
TickNext ==
  \/ StopBegin
  \/ StopWaitDone
  \/ StopWaitTimeout
  \/ StopServerClear
  \/ StopHTTP
  \/ StopDisconnect
  \/ \E k \in Runs : HTTPExit(k)
  \/ \E l \in Runs : HubCtxDone(l)
  \/ \E l \in Runs : HubBroadcast(l)
  \/ \E r \in Runs : RunStop(r)
  \/ \E r \in Runs : RunTick(r)
  \/ \E r \in Runs : RunReadNothing(r)
  \/ \E r \in Runs : RunReadLineFrom(r, TickLines)

TickSpec == HubInit /\ [][TickNext]_vars

\* Polling loop r goes from its select through one tick, or from its tick
\* body to the end of the tick, in this step.
TickStep(r) == runPc[r] \in {"select", "read"} /\ (RunTick(r) \/ RunReadNothing(r)
                                                  \/ RunReadLineFrom(r, TickLines))

Issued == nBcast' - nBcast

\* C30: a step of the polling loop issues one broadcast when it ends a tick
\* in which the device was connected, ReadData returned a line and the line
\* parsed, and none otherwise; the message handed to the hub carries the
\* parsed reading, the line as ReadData returned it and the device name;
\* a tick on a device that is not connected, or whose read returns nothing,
\* hands nothing to the hub and leaves the loop at its select.
C30_TickBroadcast ==
  [][ \A r \in Runs : TickStep(r) =>
        LET parses == /\ runPc[r] = "read" /\ port
                      /\ line' /= line \/ parsed' /= parsed
                      /\ processScaleData(ReadData(line')).err = "none"
        IN /\ Issued = (IF parses THEN 1 ELSE 0)
           /\ runPc'[r] \in {"select", "read"}
           /\ parses =>
                \A l \in Runs : (hubPc'[l] = "bcast" /\ hubPc[l] /= "bcast") =>
                  hubArg'[l] = [scale_data |-> processScaleData(ReadData(line')),
                                raw_data |-> ReadData(line'),
                                port |-> portName]
           /\ ~parses => UNCHANGED <<hubPc, hubArg>>
           /\ (runPc[r] = "select" /\ ~port) => runPc'[r] = "select"
    ]_vars

\* The reading of a three-field line has been handed to the hub, the loop
\* has gone on to a tick on the disconnected device after a Stop.
C30_Witness ==
  /\ parsed /= NoReading /\ parsed.err = "none" /\ nBcast = 1
  /\ Len(Fields(line)) = 3
  /\ ~port
  /\ lastRes = "stopped"
  /\ runPc[1] = "select" /\ runCh[1] = NoChan

\* ---- C31: what a Start creates and what its run touches ------------------

\* The stop channels, hub generations (context and the three channels) and
\* listeners that exist: made by the constructors or by an earlier Start.
StopChansMade == 1..(nStart + 1)
HubGensMade == 0..nStart
ListenersMade == {k \in Runs : http[k] /= "none"}

\* The send channel of session c was made by ServeWS in an earlier run than
\* run n.
MadeBefore(c, n) == sst[c] /= "none" /\ sgen[c] < n

\* Hub loop l enqueues the broadcast it holds on c.send in this step.
Enqueues(l, c) == Processes(l) /\ c \in clients /\ Len(q'[c]) > Len(q[c])

\* C31: a Start that passes its guard leaves bm.stopChan, the hub context
\* and channels and bm.httpServer on objects that did not exist before; and
\* the hub loop it launches sends on no channel that was made in an earlier
\* run.
C31_FreshPerStart ==
  [][ /\ nStart' /= nStart =>
           /\ stopChan' \notin StopChansMade \cup {NoChan}
           /\ gen' \notin HubGensMade
           /\ httpServer' \notin ListenersMade \cup {NoChan}
           /\ hubGen'[nStart'] = gen'
      /\ \A l \in Runs, c \in Clients :
           (l = nStart /\ Enqueues(l, c)) => ~MadeBefore(c, nStart)
    ]_vars

\* ---- C32..C35: the session loops and the clock ---------------------------

\* writePump of c returns in this step.
WriterExits(c) == wp[c] = "run" /\ wp'[c] = "done"
\* writePump of c receives a message from c.send in this step.
WriterTakes(c) == wp[c] = "run" /\ q[c] /= <<>> /\ q'[c] = Tail(q[c])
\* writePump of c takes a tick of its ticker in this step.
Probes(c) == wp[c] = "run" /\ nextPing'[c] /= nextPing[c]
\* c.send is closed and nothing is left in it.
Drained(c) == sendClosed[c] /\ q[c] = <<>>

\* C32: a writePump that returns leaves the connection closed; a write (of
\* a message taken from the queue, or of a ping) on a closed connection
\* ends the loop; and once the queue is closed and drained the only thing
\* the loop does besides a ping is to return: it writes no message.
C32_WriterExit ==
  [][ \A c \in Clients :
        /\ WriterExits(c) => connClosed'[c]
        /\ (connClosed[c] /\ (WriterTakes(c) \/ Probes(c))) => WriterExits(c)
        /\ (wp[c] = "run" /\ Drained(c) /\ ~Probes(c)
              /\ <<wp[c], lastWrite[c]>>' /= <<wp[c], lastWrite[c]>>)
             => (WriterExits(c) /\ lastWrite'[c] = lastWrite[c])
    ]_vars

\* A writePump that wrote a message after the clock had advanced has found
\* its queue closed and returned.
C32_Witness ==
  \E c \in Clients :
    /\ wp[c] = "done" /\ Drained(c) /\ connClosed[c]
    /\ rp[c] = "done"
    /\ lastWrite[c] > 0

\* readPump of c leaves its loop in this step with the read deadline passed.
DeadlineExit(c) ==
  rp[c] = "run" /\ rp'[c] /= "run" /\ now >= readDeadline[c]

\* C33: a session whose peer has sent every frame less than PongWait after
\* the one before, the latest one less than PongWait ago, is not
\* disconnected by the read deadline.
C33_FramesRefreshDeadline ==
  [][ \A c \in Clients :
        (steady[c] /\ now - lastRead[c] < PongWait) => ~DeadlineExit(c) ]_vars

\* C34: writePump takes a tick and sends a ping only when it has written
\* no message for PingPeriod.
C34_PingAfterSilence ==
  [][ \A c \in Clients :
        (Probes(c) /\ ~connClosed[c]) => now - lastWrite[c] >= PingPeriod ]_vars

\* C35: two sessions that ServeWS has created have different ids.
C35_UniqueIds ==
  \A c, d \in Clients :
    (c /= d /\ sst[c] /= "none" /\ sst[d] /= "none") => id[c] /= id[d]

\* ---- C36..C40 ------------------------------------------------------------

\* C36: nothing is sent on a session's send channel after it was closed: no
\* send by handleMessage or by the fan-out of a broadcast ends in the
\* runtime's "send on closed channel".
C36_NoSendOnClosedQueue == panic /= "send on closed channel"

\* ServeWS has handed session c to a hub loop and started both of its loops.
Served(c) == sst[c] = "open" /\ rp[c] /= "none" /\ wp[c] /= "none"

\* C37: every connection ServeWS has upgraded is eventually handed to a hub
\* loop, with writePump and readPump started, or closed.
C37_UpgradeServedOrClosed ==
  \A c \in LifeSessions : (sst[c] /= "none") ~> (Served(c) \/ connClosed[c])

\* Stop leaves its wait in this step although bm.wg has not reached zero:
\* the time.After case.
TimeoutPath == ctl = "stop_wait" /\ ctl' = "stop_sleep" /\ wg > 0

\* C38: Stop leaves its wait through the timeout only if a polling loop
\* has not exited.
C38_TimeoutOnlyForPollingLoop ==
  [][ TimeoutPath => \E r \in Runs : runPc[r] \in {"select", "read"} ]_vars

\* bm.mu is free: no Start or Stop call is in progress.
MutexFree == ctl = "idle"

\* C39: with bm.mu free, a running bridge has its device handle set, an
\* open stop channel in bm.stopChan, its listener handle set and the hub
\* loop of its Start launched; a stopped bridge has no listener handle and
\* holds no closed stop channel in bm.stopChan, so that no Stop closes a
\* stop channel a second time.
C39_LifecycleInvariant ==
  MutexFree =>
    /\ isRunning =>
         /\ port
         /\ stopChan /= NoChan /\ stopChan \notin stopClosed
         /\ httpServer = nStart
         /\ hubPc[nStart] /= "none"
    /\ ~isRunning =>
         /\ httpServer = NoChan
         /\ stopChan \notin stopClosed

\* The bridge is running in its second run, after the Stop of the first.
C39_Witness ==
  /\ MutexFree /\ isRunning
  /\ nStart = 2 /\ stopClosed = {2}
  /\ lastRes = "started"

\* The messages on the queues of any two sessions are in the same relative
\* order.
SameOrder ==
  \A c, d \in Clients :
    \A i, j \in 1..Len(q[c]), k, m \in 1..Len(q[d]) :
      (i < j /\ q[c][i] = q[d][k] /\ q[c][j] = q[d][m]) => k < m

\* No message is twice on the queue of session c.
NoDuplicate(c) ==
  \A i, j \in 1..Len(q[c]) : q[c][i] = q[c][j] => i = j

====
